---- MODULE Spec2Model ----
(***************************************************************************)
(* A model of the behave behavior-tree engine (package behave).            *)
(*                                                                         *)
(* A tree is a sequence of node descriptions; node 1 is the root and 0     *)
(* stands for the BehaviorTree wrapper.  Each node's Tick and Reset is an  *)
(* operator over a machine record m that carries the mutable fields of     *)
(* every node (status, Count, MinSuccessCount, startTime) together with    *)
(* an observation log of the call in progress: which nodes were ticked, in *)
(* which order, what each returned, what each host callback returned, and  *)
(* how often each node was reset.                                          *)
(***************************************************************************)
EXTENDS Integers, Sequences, FiniteSets, TLC

VARIABLES tree, status, Count, MinSuccessCount, startTime, btStatus, now, op, log, lastRet, hist

vars == <<tree, status, Count, MinSuccessCount, startTime, btStatus, now, op, log, lastRet, hist>>

\* ------------------------------------------------------------------ bounds
MaxChildren == 3
MaxCountBound == 3
MaxTicks == 4
MaxRounds == 3
MaxTime == 3
MaxDuration == 2
CountLimit == 5

\* ------------------------------------------------------------------ Status
Ready == 0
Running == 1
Success == 2
Failure == 3

Statuses == {Ready, Running, Success, Failure}

\* A value of type Status (an int) that is none of the four constants.
Unrecognized == {Failure + 1}

\* What a host callback of type func() Status can return.
RawStatus == Statuses \cup Unrecognized

\* What a host callback of type func() bool can return (false, true).
RawBool == {0, 1}

\* ------------------------------------------------------------ tree shapes
LeafKinds == {"Action", "Condition", "CachedCondition"}
ListKinds == {"Sequence", "Selector", "Parallel"}
DecoratorKinds == {"Retry", "Repeat", "RepeatN", "Invert", "AlwaysSuccess", "AlwaysFailure",
                   "WhileSuccess", "WhileFailure", "Forever", "WithTimeout", "Log"}

\* One node description.  kids: Children (list nodes) or <<Child>> (decorators,
\* Composite), empty for a nil Child; conds: Composite.Conditions; cb: the leaf's
\* callback is non-nil; vals: what that callback may return.
Node(kind, kids, conds, cb, vals, maxCount, minSuccess, duration) ==
    [kind |-> kind, kids |-> kids, conds |-> conds, cb |-> cb, vals |-> vals,
     MaxCount |-> maxCount, MinSuccessCount |-> minSuccess, Duration |-> duration,
     Message |-> "", LogLevel |-> <<>>]

Action(cb, vals) == Node("Action", <<>>, <<>>, cb, vals, 0, 0, 0)
Condition(cb) == Node("Condition", <<>>, <<>>, cb, RawBool, 0, 0, 0)
CachedCondition(cb, vals) == Node("CachedCondition", <<>>, <<>>, cb, vals, 0, 0, 0)
List(kind, kids, minSuccess) == Node(kind, kids, <<>>, FALSE, {}, 0, minSuccess, 0)
Composite(conds, kids) == Node("Composite", kids, conds, FALSE, {}, 0, 0, 0)
Decorator(kind, kids, maxCount, duration) == Node(kind, kids, <<>>, FALSE, {}, maxCount, 0, duration)

\* &Log{Child: ..., Message: message, LogLevel: level}; level is <<>> for a nil
\* LogLevel and <<l>> for a pointer to the slog level l.
Log(kids, message, level) ==
    [Decorator("Log", kids, 0, 0) EXCEPT !.Message = message, !.LogLevel = level]

Nodes == DOMAIN tree
HasChild(n) == Len(tree[n].kids) > 0
Child(n) == tree[n].kids[1]
Leaves == {n \in Nodes : tree[n].kind \in LeafKinds /\ tree[n].cb}

\* The values the host callbacks return when invoked during one call.
Oracles == {o \in [Leaves -> RawStatus \cup RawBool] : \A n \in Leaves : o[n] \in tree[n].vals}

\* ---------------------------------------------------------------- machine
EmptyLog ==
    [ret |-> [n \in Nodes |-> <<>>], cached |-> [n \in Nodes |-> <<>>],
     raw |-> [n \in Nodes |-> <<>>], resets |-> [n \in Nodes |-> 0], order |-> <<>>,
     slog |-> <<>>]

Machine ==
    [status |-> status, Count |-> Count, MinSuccessCount |-> MinSuccessCount,
     startTime |-> startTime, log |-> EmptyLog, last |-> lastRet, r |-> Ready]

\* x.status = s
SetStatus(m, n, s) == [m EXCEPT !.status[n] = s]

\* The callback of leaf n is invoked and returns v.
Invoke(m, n, v) == [m EXCEPT !.log.raw[n] = Append(@, v)]

\* "return x.status" / "return s" at the end of n's Tick.
Return(m, n, s) ==
    [m EXCEPT !.r = s, !.last[n] = s, !.log.ret[n] = Append(@, s),
              !.log.cached[n] = Append(@, m.status[n])]

Enter(m, n) == [m EXCEPT !.log.order = Append(@, n)]

RECURSIVE Tick(_, _, _)
RECURSIVE Reset(_, _)

\* ------------------------------------------------------------------ leaves
\* A leaf that hands the callback's value on unchecked.
ActionSwitchUnchecked(st) == st

\* An Action that files a Running callback under Ready.
ActionSwitchRunningIsReady(st) ==
    IF st = Running THEN Ready ELSE IF st \in Statuses THEN st ELSE Failure

\* The switch of Action.Tick.
ActionSwitch(st) == IF st \in {Ready, Running, Success, Failure} THEN st ELSE Failure

ActionTick(m, o, n) ==
    IF ~tree[n].cb
    THEN Return(SetStatus(m, n, Failure), n, Failure)
    ELSE LET st == ActionSwitch(o[n])
         IN  Return(SetStatus(Invoke(m, n, o[n]), n, st), n, st)

\* An Action whose Reset runs the callback once more.
ActionResetRuns(m, n) ==
    [SetStatus(IF tree[n].cb THEN Invoke(m, n, Ready) ELSE m, n, Ready) EXCEPT !.r = Ready]

ActionReset(m, n) == [SetStatus(m, n, Ready) EXCEPT !.r = Ready]

\* "return x.status": Status() of every node that caches its status.
FieldStatus(m, n) == [m EXCEPT !.r = m.status[n]]

\* A caching Condition that hands Check's value on unchecked.
CachedConditionSwitchUnchecked(st) == st

\* The switch of the caching Condition.Tick.
CachedConditionSwitch(st) == IF st \in {Ready, Running, Success, Failure} THEN st ELSE Failure

\* Condition of condition.go: Check func() Status, cached status.
CachedConditionTick(m, o, n) ==
    IF ~tree[n].cb
    THEN Return(SetStatus(m, n, Failure), n, Failure)
    ELSE LET st == CachedConditionSwitch(o[n])
         IN  Return(SetStatus(Invoke(m, n, o[n]), n, st), n, st)

CachedConditionReset(m, n) == [SetStatus(m, n, Ready) EXCEPT !.r = Ready]

\* Condition of behaviortree.go: Check func() bool, no status field.  Status()
\* evaluates Check; Tick is Status(); Reset returns Ready and changes nothing.
ConditionStatus(m, o, n) ==
    IF ~tree[n].cb
    THEN [m EXCEPT !.r = Failure]
    ELSE [Invoke(m, n, o[n]) EXCEPT !.r = IF o[n] = 1 THEN Success ELSE Failure]

ConditionTick(m, o, n) ==
    LET m1 == ConditionStatus(m, o, n)
    IN  [m1 EXCEPT !.last[n] = m1.r, !.log.ret[n] = Append(@, m1.r),
               !.log.cached[n] = Append(@, m1.r)]

ConditionReset(m, n) == [m EXCEPT !.r = Ready]

\* ------------------------------------------------- Sequence, Selector
\* A Sequence that treats a Ready child like a succeeded one.
SequenceSwitchSkipsReady(st) ==
    CASE st \in {Success, Ready} -> [stop |-> FALSE, status |-> st]
      [] st \in {Running, Failure} -> [stop |-> TRUE, status |-> st]
      [] OTHER -> [stop |-> TRUE, status |-> Failure]

\* The switch of Sequence.Tick: whether the loop stops, and with which status.
SequenceSwitch(st) ==
    CASE st = Success -> [stop |-> FALSE, status |-> st]
      [] st \in {Ready, Running, Failure} -> [stop |-> TRUE, status |-> st]
      [] OTHER -> [stop |-> TRUE, status |-> Failure]

RECURSIVE SequenceLoop(_, _, _, _)
SequenceLoop(m, o, n, i) ==
    IF i > Len(tree[n].kids)
    THEN Return(SetStatus(m, n, Success), n, Success)
    ELSE LET m1 == Tick(m, o, tree[n].kids[i])
             sw == SequenceSwitch(m1.r)
         IN  IF sw.stop
             THEN Return(SetStatus(m1, n, sw.status), n, sw.status)
             ELSE SequenceLoop(m1, o, n, i + 1)

\* A Sequence that resumes at the child that was Running when it last stopped.
SequenceTickResumes(m, o, n) ==
    LET running == {i \in 1..Len(tree[n].kids) : m.last[tree[n].kids[i]] = Running}
    IN  SequenceLoop(m, o, n,
            IF m.status[n] = Running /\ running # {}
            THEN CHOOSE i \in running : \A j \in running : i <= j
            ELSE 1)

SequenceTick(m, o, n) == SequenceLoop(m, o, n, 1)

\* A Selector that treats a Ready child like a failed one.
SelectorSwitchSkipsReady(st) ==
    CASE st \in {Failure, Ready} -> [stop |-> FALSE, status |-> st]
      [] st \in {Running, Success} -> [stop |-> TRUE, status |-> st]
      [] OTHER -> [stop |-> TRUE, status |-> Failure]

\* The switch of Selector.Tick.
SelectorSwitch(st) ==
    CASE st = Failure -> [stop |-> FALSE, status |-> st]
      [] st \in {Ready, Running, Success} -> [stop |-> TRUE, status |-> st]
      [] OTHER -> [stop |-> TRUE, status |-> Failure]

RECURSIVE SelectorLoop(_, _, _, _)
\* A Selector that succeeds when every child has failed.
SelectorLoopExhaustedSucceeds(m, o, n, i) ==
    IF i > Len(tree[n].kids)
    THEN Return(SetStatus(m, n, Success), n, Success)
    ELSE LET m1 == Tick(m, o, tree[n].kids[i])
             sw == SelectorSwitch(m1.r)
         IN  IF sw.stop
             THEN Return(SetStatus(m1, n, sw.status), n, sw.status)
             ELSE SelectorLoop(m1, o, n, i + 1)

SelectorLoop(m, o, n, i) ==
    IF i > Len(tree[n].kids)
    THEN Return(SetStatus(m, n, Failure), n, Failure)
    ELSE LET m1 == Tick(m, o, tree[n].kids[i])
             sw == SelectorSwitch(m1.r)
         IN  IF sw.stop
             THEN Return(SetStatus(m1, n, sw.status), n, sw.status)
             ELSE SelectorLoop(m1, o, n, i + 1)

SelectorTick(m, o, n) == SelectorLoop(m, o, n, 1)

\* "for _, child := range Children { child.Reset() }"
RECURSIVE ResetAll(_, _, _)
ResetAll(m, ids, i) == IF i > Len(ids) THEN m ELSE ResetAll(Reset(m, ids[i]), ids, i + 1)

\* Sequence.Reset, Selector.Reset, Parallel.Reset
ListReset(m, n) == [SetStatus(ResetAll(m, tree[n].kids, 1), n, Ready) EXCEPT !.r = Ready]

\* ---------------------------------------------------------------- Parallel
\* A Parallel that raises a MinSuccessCount below 1 but does not cap it.
ParallelClampLowerOnly(min, len) == IF min <= 0 THEN 1 ELSE min

\* "Validate MinSuccessCount"
ParallelClamp(min, len) ==
    LET a == IF min <= 0 THEN 1 ELSE min
    IN  IF a > len THEN len ELSE a

\* A Parallel that does not count a Ready child as still running.
ParallelCountDropsReady(c, st) ==
    CASE st = Success -> [c EXCEPT !.success = @ + 1]
      [] st = Failure -> [c EXCEPT !.failure = @ + 1]
      [] st = Running -> [c EXCEPT !.running = @ + 1]
      [] OTHER -> c

\* The counters after one child returned st.
ParallelCount(c, st) ==
    CASE st = Success -> [c EXCEPT !.success = @ + 1]
      [] st = Failure -> [c EXCEPT !.failure = @ + 1]
      [] st = Running -> [c EXCEPT !.running = @ + 1]
      [] st = Ready -> [c EXCEPT !.running = @ + 1]
      [] OTHER -> c

\* A Parallel that fails as soon as any child failed short of the threshold.
ParallelDecideStrict(c, min) ==
    IF c.success >= min THEN Success
    ELSE IF c.failure > 0 THEN Failure
    ELSE IF c.running > 0 THEN Running
    ELSE Failure

\* The decision after all children were ticked.
ParallelDecide(c, min) ==
    IF c.success >= min THEN Success
    ELSE IF c.success + c.running < min THEN Failure
    ELSE IF c.running > 0 THEN Running
    ELSE Failure

RECURSIVE ParallelLoop(_, _, _, _, _)
\* A Parallel that stops ticking once enough children have succeeded.
ParallelLoopShortCircuit(m, o, n, i, c) ==
    IF i > Len(tree[n].kids) \/ c.success >= m.MinSuccessCount[n]
    THEN LET st == ParallelDecide(c, m.MinSuccessCount[n])
         IN  Return(SetStatus(m, n, st), n, st)
    ELSE LET m1 == Tick(m, o, tree[n].kids[i])
         IN  ParallelLoop(m1, o, n, i + 1, ParallelCount(c, m1.r))

ParallelLoop(m, o, n, i, c) ==
    IF i > Len(tree[n].kids)
    THEN LET st == ParallelDecide(c, m.MinSuccessCount[n])
         IN  Return(SetStatus(m, n, st), n, st)
    ELSE LET m1 == Tick(m, o, tree[n].kids[i])
         IN  ParallelLoop(m1, o, n, i + 1, ParallelCount(c, m1.r))

ParallelTick(m, o, n) ==
    IF Len(tree[n].kids) = 0
    THEN Return(SetStatus(m, n, Success), n, Success)
    ELSE LET m1 == [m EXCEPT !.MinSuccessCount[n] = ParallelClamp(@, Len(tree[n].kids))]
         IN  ParallelLoop(m1, o, n, 1, [success |-> 0, failure |-> 0, running |-> 0])

\* --------------------------------------------------------------- Composite
\* A Composite that goes on to the next condition when one returns Ready.
CompositeSwitchSkipsReady(st) ==
    CASE st \in {Success, Ready} -> [stop |-> FALSE, status |-> st]
      [] st = Running -> [stop |-> TRUE, status |-> Running]
      [] OTHER -> [stop |-> TRUE, status |-> Failure]

\* The switch over a condition's status in Composite.Tick.
CompositeSwitch(st) ==
    CASE st = Success -> [stop |-> FALSE, status |-> st]
      [] st = Running -> [stop |-> TRUE, status |-> Running]
      [] st \in {Failure, Ready} -> [stop |-> TRUE, status |-> Failure]
      [] OTHER -> [stop |-> TRUE, status |-> Failure]

\* A Composite that fails when its conditions pass and it has no child.
CompositeChildRequired(m, o, n) ==
    IF HasChild(n)
    THEN LET m1 == Tick(m, o, Child(n)) IN Return(SetStatus(m1, n, m1.r), n, m1.r)
    ELSE Return(SetStatus(m, n, Failure), n, Failure)

\* "All conditions succeeded, run the child node"
CompositeChild(m, o, n) ==
    IF HasChild(n)
    THEN LET m1 == Tick(m, o, Child(n)) IN Return(SetStatus(m1, n, m1.r), n, m1.r)
    ELSE Return(SetStatus(m, n, Success), n, Success)

RECURSIVE CompositeLoop(_, _, _, _)
CompositeLoop(m, o, n, i) ==
    IF i > Len(tree[n].conds)
    THEN CompositeChild(m, o, n)
    ELSE LET m1 == Tick(m, o, tree[n].conds[i])
             sw == CompositeSwitch(m1.r)
         IN  IF sw.stop
             THEN Return(SetStatus(m1, n, sw.status), n, sw.status)
             ELSE CompositeLoop(m1, o, n, i + 1)

CompositeTick(m, o, n) ==
    IF Len(tree[n].conds) = 0 /\ ~HasChild(n)
    THEN Return(SetStatus(m, n, Failure), n, Failure)
    ELSE IF Len(tree[n].conds) = 0
    THEN LET m1 == Tick(m, o, Child(n)) IN Return(SetStatus(m1, n, m1.r), n, m1.r)
    ELSE CompositeLoop(m, o, n, 1)

CompositeReset(m, n) ==
    LET m1 == ResetAll(m, tree[n].conds, 1)
        m2 == IF HasChild(n) THEN Reset(m1, Child(n)) ELSE m1
    IN  [SetStatus(m2, n, Ready) EXCEPT !.r = Ready]

\* -------------------------------------------------------------- decorators
\* "x.status = Ready; if x.Child != nil { x.Child.Reset() }; return x.status"
DecoratorReset(m, n) ==
    LET m1 == SetStatus(m, n, Ready)
        m2 == IF HasChild(n) THEN Reset(m1, Child(n)) ELSE m1
    IN  [m2 EXCEPT !.r = m2.status[n]]

\* A decorator's Tick after its child returned: reset the child when the switch
\* says so, then set and return the status.
Finish(m, n, sw) ==
    LET m1 == IF sw.reset THEN Reset(m, Child(n)) ELSE m
    IN  Return(SetStatus(m1, n, sw.status), n, sw.status)

\* A Retry that keeps trying without resetting the failed child.
RetrySwitchNoReset(childStatus) ==
    CASE childStatus = Success -> [status |-> Success, reset |-> FALSE]
      [] OTHER -> [status |-> Running, reset |-> FALSE]

\* A Retry that gives up on the first failure.
RetrySwitchGivesUp(childStatus) ==
    CASE childStatus = Success -> [status |-> Success, reset |-> FALSE]
      [] childStatus = Running -> [status |-> Running, reset |-> FALSE]
      [] childStatus = Failure -> [status |-> Failure, reset |-> TRUE]
      [] OTHER -> [status |-> Running, reset |-> FALSE]

\* The switch of Retry.Tick.
\* A Retry whose default case hands the child's status on.
RetrySwitchPassesOther(childStatus) ==
    CASE childStatus = Success -> [status |-> Success, reset |-> FALSE]
      [] childStatus = Running -> [status |-> Running, reset |-> FALSE]
      [] childStatus = Failure -> [status |-> Running, reset |-> TRUE]
      [] OTHER -> [status |-> childStatus, reset |-> FALSE]

RetrySwitch(childStatus) ==
    CASE childStatus = Success -> [status |-> Success, reset |-> FALSE]
      [] childStatus = Running -> [status |-> Running, reset |-> FALSE]
      [] childStatus = Failure -> [status |-> Running, reset |-> TRUE]
      [] OTHER -> [status |-> Running, reset |-> FALSE]

\* Retry.Tick with the nil-child guard answering Success.
RetryTickEmptySucceeds(m, o, n) ==
    IF ~HasChild(n)
    THEN Return(SetStatus(m, n, Success), n, Success)
    ELSE LET m1 == Tick(m, o, Child(n)) IN Finish(m1, n, RetrySwitch(m1.r))

RetryTick(m, o, n) ==
    IF ~HasChild(n)
    THEN Return(SetStatus(m, n, Failure), n, Failure)
    ELSE LET m1 == Tick(m, o, Child(n)) IN Finish(m1, n, RetrySwitch(m1.r))

\* The switch of Repeat.Tick.
RepeatSwitch(childStatus) ==
    CASE childStatus = Success -> [status |-> Running, reset |-> TRUE]
      [] childStatus = Running -> [status |-> Running, reset |-> FALSE]
      [] childStatus = Failure -> [status |-> Failure, reset |-> FALSE]
      [] OTHER -> [status |-> Failure, reset |-> FALSE]

\* A Repeat that runs a succeeded child once more within the same tick.
RepeatTickRunsAgain(m, o, n) ==
    IF ~HasChild(n)
    THEN Return(SetStatus(m, n, Failure), n, Failure)
    ELSE LET m1 == Tick(m, o, Child(n))
             m2 == IF m1.r = Success THEN Tick(Reset(m1, Child(n)), o, Child(n)) ELSE m1
         IN  Finish(m2, n, RepeatSwitch(m2.r))

RepeatTick(m, o, n) ==
    IF ~HasChild(n)
    THEN Return(SetStatus(m, n, Failure), n, Failure)
    ELSE LET m1 == Tick(m, o, Child(n)) IN Finish(m1, n, RepeatSwitch(m1.r))

\* An Invert that does not swap Success and Failure.
InvertSwitchNoSwap(childStatus) ==
    CASE childStatus \in {Success, Failure, Running, Ready} ->
            [status |-> childStatus, reset |-> FALSE]
      [] OTHER -> [status |-> Failure, reset |-> FALSE]

\* An Invert that treats a Ready child as a failed one.
InvertSwitchReadyFails(childStatus) ==
    CASE childStatus = Success -> [status |-> Failure, reset |-> FALSE]
      [] childStatus = Failure -> [status |-> Success, reset |-> FALSE]
      [] childStatus = Running -> [status |-> Running, reset |-> FALSE]
      [] OTHER -> [status |-> Failure, reset |-> FALSE]

\* The switch of Invert.Tick.
InvertSwitch(childStatus) ==
    CASE childStatus = Success -> [status |-> Failure, reset |-> FALSE]
      [] childStatus = Failure -> [status |-> Success, reset |-> FALSE]
      [] childStatus = Running -> [status |-> Running, reset |-> FALSE]
      [] childStatus = Ready -> [status |-> Ready, reset |-> FALSE]
      [] OTHER -> [status |-> Failure, reset |-> FALSE]

InvertTick(m, o, n) ==
    IF ~HasChild(n)
    THEN Return(SetStatus(m, n, Failure), n, Failure)
    ELSE LET m1 == Tick(m, o, Child(n)) IN Finish(m1, n, InvertSwitch(m1.r))

\* "as.status = as.Child.Tick(); if as.status == Failure { as.status = Success }"
AlwaysSuccessTick(m, o, n) ==
    IF ~HasChild(n)
    THEN Return(SetStatus(m, n, Success), n, Success)
    ELSE LET m1 == Tick(m, o, Child(n))
             m2 == SetStatus(m1, n, m1.r)
             m3 == IF m2.status[n] = Failure THEN SetStatus(m2, n, Success) ELSE m2
         IN  Return(m3, n, m3.status[n])

\* "af.status = af.Child.Tick(); if af.status == Success { af.status = Failure }"
AlwaysFailureTick(m, o, n) ==
    IF ~HasChild(n)
    THEN Return(SetStatus(m, n, Failure), n, Failure)
    ELSE LET m1 == Tick(m, o, Child(n))
             m2 == SetStatus(m1, n, m1.r)
             m3 == IF m2.status[n] = Success THEN SetStatus(m2, n, Failure) ELSE m2
         IN  Return(m3, n, m3.status[n])

\* A RepeatN that runs the child once more than MaxCount.
RepeatNStepOffByOne(m, n, childStatus) ==
    IF childStatus = Running
    THEN Return(SetStatus(m, n, Running), n, Running)
    ELSE LET m1 == [m EXCEPT !.Count[n] = @ + 1]
         IN  IF tree[n].MaxCount > 0 /\ m1.Count[n] > tree[n].MaxCount
             THEN Return(SetStatus(m1, n, childStatus), n, childStatus)
             ELSE Return(SetStatus(Reset(m1, Child(n)), n, Running), n, Running)

\* RepeatN.Tick after the child returned childStatus (the child is present and
\* MaxCount <= 0 or Count < MaxCount).
RepeatNStep(m, n, childStatus) ==
    IF childStatus = Running
    THEN Return(SetStatus(m, n, Running), n, Running)
    ELSE LET m1 == [m EXCEPT !.Count[n] = @ + 1]
         IN  IF tree[n].MaxCount > 0 /\ m1.Count[n] >= tree[n].MaxCount
             THEN Return(SetStatus(m1, n, childStatus), n, childStatus)
             ELSE Return(SetStatus(Reset(m1, Child(n)), n, Running), n, Running)

\* A RepeatN that lets the child in once more when Count has reached MaxCount.
RepeatNTickOneMore(m, o, n) ==
    IF ~HasChild(n)
    THEN Return([SetStatus(m, n, Failure) EXCEPT !.Count[n] = tree[n].MaxCount], n, Failure)
    ELSE IF tree[n].MaxCount <= 0 \/ m.Count[n] <= tree[n].MaxCount
    THEN LET m1 == Tick(m, o, Child(n)) IN RepeatNStep(m1, n, m1.r)
    ELSE Return(m, n, m.status[n])

RepeatNTick(m, o, n) ==
    IF ~HasChild(n)
    THEN Return([SetStatus(m, n, Failure) EXCEPT !.Count[n] = tree[n].MaxCount], n, Failure)
    ELSE IF tree[n].MaxCount <= 0 \/ m.Count[n] < tree[n].MaxCount
    THEN LET m1 == Tick(m, o, Child(n)) IN RepeatNStep(m1, n, m1.r)
    ELSE Return(m, n, m.status[n])

\* A RepeatN whose Reset takes one execution off the Count.
RepeatNResetCountsDown(m, n) ==
    LET m1 == [SetStatus(m, n, Ready) EXCEPT !.Count[n] = IF @ > 0 THEN @ - 1 ELSE 0]
        m2 == IF HasChild(n) THEN Reset(m1, Child(n)) ELSE m1
    IN  [m2 EXCEPT !.r = m2.status[n]]

\* A RepeatN whose Reset leaves the Count where it was.
RepeatNResetKeepsCount(m, n) ==
    LET m1 == SetStatus(m, n, Ready)
        m2 == IF HasChild(n) THEN Reset(m1, Child(n)) ELSE m1
    IN  [m2 EXCEPT !.r = m2.status[n]]

RepeatNReset(m, n) ==
    LET m1 == [SetStatus(m, n, Ready) EXCEPT !.Count[n] = 0]
        m2 == IF HasChild(n) THEN Reset(m1, Child(n)) ELSE m1
    IN  [m2 EXCEPT !.r = m2.status[n]]

\* A Forever that ends when its child succeeds.
ForeverTickUntilSuccess(m, o, n) ==
    LET m1 == IF HasChild(n) THEN Tick(m, o, Child(n)) ELSE m
        st == IF HasChild(n) /\ m1.r = Success THEN Success ELSE Running
    IN  Return(SetStatus(m1, n, st), n, st)

ForeverTick(m, o, n) ==
    LET m1 == IF HasChild(n) THEN Tick(m, o, Child(n)) ELSE m
    IN  Return(SetStatus(m1, n, Running), n, Running)

\* A WhileSuccess that keeps going while its child is Ready.
WhileSuccessSwitchReadyGoesOn(childStatus) ==
    IF childStatus \in {Running, Success, Ready}
    THEN [status |-> Running, reset |-> childStatus = Success]
    ELSE [status |-> Failure, reset |-> FALSE]

\* The decision of WhileSuccess.Tick.
WhileSuccessSwitch(childStatus) ==
    IF childStatus = Running \/ childStatus = Success
    THEN [status |-> Running, reset |-> childStatus = Success]
    ELSE [status |-> Failure, reset |-> FALSE]

WhileSuccessTick(m, o, n) ==
    IF ~HasChild(n)
    THEN Return(SetStatus(m, n, Failure), n, Failure)
    ELSE LET m1 == Tick(m, o, Child(n)) IN Finish(m1, n, WhileSuccessSwitch(m1.r))

\* A WhileFailure that does not reset the child that failed.
WhileFailureSwitchNoReset(childStatus) ==
    CASE childStatus \in {Running, Failure} -> [status |-> Running, reset |-> FALSE]
      [] childStatus = Success -> [status |-> Success, reset |-> FALSE]
      [] OTHER -> [status |-> Running, reset |-> FALSE]

\* The switch of WhileFailure.Tick.
WhileFailureSwitch(childStatus) ==
    CASE childStatus \in {Running, Failure} -> [status |-> Running, reset |-> childStatus = Failure]
      [] childStatus = Success -> [status |-> Success, reset |-> FALSE]
      [] OTHER -> [status |-> Running, reset |-> FALSE]

WhileFailureTick(m, o, n) ==
    IF ~HasChild(n)
    THEN Return(SetStatus(m, n, Success), n, Success)
    ELSE LET m1 == Tick(m, o, Child(n)) IN Finish(m1, n, WhileFailureSwitch(m1.r))

\* A WithTimeout that lets the child run past the deadline by one instant.
WithTimeoutSwitchLate(childStatus, elapsed, duration) ==
    CASE childStatus \in {Success, Failure} -> childStatus
      [] childStatus = Running -> IF elapsed > duration THEN Failure ELSE Running
      [] OTHER -> Failure

\* A WithTimeout that compares with the deadline before it looks at the child.
WithTimeoutSwitchDeadlineFirst(childStatus, elapsed, duration) ==
    CASE elapsed >= duration -> Failure
      [] childStatus \in {Success, Failure} -> childStatus
      [] childStatus = Running -> Running
      [] OTHER -> Failure

\* The switch of WithTimeout.Tick; elapsed is time.Since(startTime).
WithTimeoutSwitch(childStatus, elapsed, duration) ==
    CASE childStatus \in {Success, Failure} -> childStatus
      [] childStatus = Running -> IF elapsed >= duration THEN Failure ELSE Running
      [] OTHER -> Failure

\* startTime = 0 is the zero time.Time; the clock does not move during a tick.
WithTimeoutTick(m, o, n) ==
    IF ~HasChild(n)
    THEN Return(SetStatus(m, n, Failure), n, Failure)
    ELSE LET m1 == IF m.startTime[n] = 0 THEN [m EXCEPT !.startTime[n] = now] ELSE m
             m2 == Tick(m1, o, Child(n))
             st == WithTimeoutSwitch(m2.r, now - m2.startTime[n], tree[n].Duration)
         IN  Return(SetStatus(m2, n, st), n, st)

\* A WithTimeout whose Reset keeps the start time.
WithTimeoutResetKeepsStart(m, n) ==
    LET m1 == SetStatus(m, n, Ready)
        m2 == IF HasChild(n) THEN Reset(m1, Child(n)) ELSE m1
    IN  [m2 EXCEPT !.r = m2.status[n]]

WithTimeoutReset(m, n) ==
    LET m1 == [SetStatus(m, n, Ready) EXCEPT !.startTime[n] = 0]
        m2 == IF HasChild(n) THEN Reset(m1, Child(n)) ELSE m1
    IN  [m2 EXCEPT !.r = m2.status[n]]

\* slog.Log(ctx, level, msg, ...): one record written by node n.
Emit(m, n, level, msg, st) ==
    [m EXCEPT !.log.slog = Append(@, [node |-> n, level |-> level, msg |-> msg, status |-> st])]

\* "Determine log level": the custom level if there is one, else by child status.
LogLevelFor(n, childStatus) ==
    IF tree[n].LogLevel # <<>> THEN tree[n].LogLevel[1]
    ELSE CASE childStatus = Success -> "INFO"
           [] childStatus = Failure -> "WARN"
           [] childStatus \in {Running, Ready} -> "DEBUG"
           [] OTHER -> "INFO"

\* A Log that reports Failure when it logs at a level it was given.
LogTickLevelDecides(m, o, n) ==
    IF ~HasChild(n)
    THEN Return(SetStatus(m, n, Failure), n, Failure)
    ELSE LET m1 == Tick(m, o, Child(n))
             st == IF tree[n].LogLevel # <<>> THEN Failure ELSE m1.r
         IN  Return(SetStatus(m1, n, st), n, st)

LogTick(m, o, n) ==
    IF ~HasChild(n)
    THEN LET level == IF tree[n].LogLevel # <<>> THEN tree[n].LogLevel[1] ELSE "WARN"
         IN  Return(Emit(SetStatus(m, n, Failure), n, level, "Log node has no child", Failure),
                    n, Failure)
    ELSE LET m1 == Tick(m, o, Child(n))
             m2 == SetStatus(m1, n, m1.r)
             message == IF tree[n].Message = "" THEN "Log node executed" ELSE tree[n].Message
         IN  Return(Emit(m2, n, LogLevelFor(n, m1.r), message, m1.r), n, m2.status[n])

\* ---------------------------------------------------------------- dispatch
\* Node.Tick(): the method of node n's type.
Tick(m, o, n) ==
    LET k == tree[n].kind
        e == Enter(m, n)
    IN  CASE k = "Action" -> ActionTick(e, o, n)
          [] k = "Condition" -> ConditionTick(e, o, n)
          [] k = "CachedCondition" -> CachedConditionTick(e, o, n)
          [] k = "Composite" -> CompositeTick(e, o, n)
          [] k = "Sequence" -> SequenceTick(e, o, n)
          [] k = "Selector" -> SelectorTick(e, o, n)
          [] k = "Parallel" -> ParallelTick(e, o, n)
          [] k = "Retry" -> RetryTick(e, o, n)
          [] k = "Repeat" -> RepeatTick(e, o, n)
          [] k = "RepeatN" -> RepeatNTick(e, o, n)
          [] k = "Invert" -> InvertTick(e, o, n)
          [] k = "AlwaysSuccess" -> AlwaysSuccessTick(e, o, n)
          [] k = "AlwaysFailure" -> AlwaysFailureTick(e, o, n)
          [] k = "WhileSuccess" -> WhileSuccessTick(e, o, n)
          [] k = "WhileFailure" -> WhileFailureTick(e, o, n)
          [] k = "Forever" -> ForeverTick(e, o, n)
          [] k = "WithTimeout" -> WithTimeoutTick(e, o, n)
          [] k = "Log" -> LogTick(e, o, n)

\* Node.Reset()
Reset(m, n) ==
    LET k == tree[n].kind
        e == [m EXCEPT !.log.resets[n] = @ + 1, !.last[n] = Ready]
    IN  CASE k = "Action" -> ActionReset(e, n)
          [] k = "Condition" -> ConditionReset(e, n)
          [] k = "CachedCondition" -> CachedConditionReset(e, n)
          [] k = "Composite" -> CompositeReset(e, n)
          [] k \in ListKinds -> ListReset(e, n)
          [] k = "RepeatN" -> RepeatNReset(e, n)
          [] k = "WithTimeout" -> WithTimeoutReset(e, n)
          [] OTHER -> DecoratorReset(e, n)

\* Node.Status()
NodeStatus(m, o, n) ==
    IF tree[n].kind = "Condition" THEN ConditionStatus(m, o, n) ELSE FieldStatus(m, n)

\* A tree without a root that reports Success.
BehaviorTreeTickEmptySucceeds(m, o) ==
    IF Nodes = {} THEN [m EXCEPT !.r = Success] ELSE Tick(m, o, 1)

\* BehaviorTree.Tick: a tree built by New(nil) is the empty sequence of nodes.
BehaviorTreeTick(m, o) == IF Nodes = {} THEN [m EXCEPT !.r = Failure] ELSE Tick(m, o, 1)

\* BehaviorTree.Reset
BehaviorTreeReset(m) == IF Nodes = {} THEN m ELSE Reset(m, 1)

\* ------------------------------------------------------- building trees
\* A subtree is a sequence of node descriptions numbered from 1 in preorder;
\* Shift renumbers it to start after position k.
Shift(t, k) ==
    [i \in 1..Len(t) |->
        [t[i] EXCEPT !.kids = [j \in 1..Len(t[i].kids) |-> t[i].kids[j] + k],
                     !.conds = [j \in 1..Len(t[i].conds) |-> t[i].conds[j] + k]]]

RECURSIVE Offsets(_, _, _)
Offsets(subs, i, base) ==
    IF i > Len(subs) THEN <<>>
    ELSE <<base + 1>> \o Offsets(subs, i + 1, base + Len(subs[i]))

RECURSIVE Flatten(_, _, _)
Flatten(subs, i, base) ==
    IF i > Len(subs) THEN <<>>
    ELSE Shift(subs[i], base) \o Flatten(subs, i + 1, base + Len(subs[i]))

\* &Sequence{Children: subs}, &Selector{...}, &Parallel{Children: subs, MinSuccessCount: min}
ListTree(kind, subs, min) == <<List(kind, Offsets(subs, 1, 1), min)>> \o Flatten(subs, 1, 1)

\* &Retry{Child: sub} ...; subs is <<sub>>, or <<>> for a nil Child.
DecoratorTree(kind, subs, maxCount, duration) ==
    <<Decorator(kind, Offsets(subs, 1, 1), maxCount, duration)>> \o Flatten(subs, 1, 1)

\* &Log{Child: sub, Message: message, LogLevel: level}
LogTree(subs, message, level) ==
    <<Log(Offsets(subs, 1, 1), message, level)>> \o Flatten(subs, 1, 1)

\* &Composite{Conditions: condSubs, Child: sub}
CompositeTree(condSubs, subs) ==
    LET all == Offsets(condSubs \o subs, 1, 1)
    IN  <<Composite(SubSeq(all, 1, Len(condSubs)), SubSeq(all, Len(condSubs) + 1, Len(all)))>>
        \o Flatten(condSubs \o subs, 1, 1)

\* Leaves: a callback that returns any int, one that returns only the four
\* statuses, and no callback.
WildAction == <<Action(TRUE, RawStatus)>>
GoodAction == <<Action(TRUE, Statuses)>>
NilAction == <<Action(FALSE, {})>>
BoolCondition == <<Condition(TRUE)>>
NilCondition == <<Condition(FALSE)>>
WildCondition == <<CachedCondition(TRUE, RawStatus)>>
NilCachedCondition == <<CachedCondition(FALSE, {})>>

LeafTrees == {WildAction, NilAction, BoolCondition, NilCondition, WildCondition, NilCachedCondition}

ListTrees ==
    {ListTree(k, [i \in 1..n |-> GoodAction], 0) : k \in {"Sequence", "Selector"}, n \in 0..MaxChildren}
    \cup {ListTree("Parallel", [i \in 1..n |-> GoodAction], min) :
            n \in 0..MaxChildren, min \in -1..(MaxChildren + 1)}

DecoratorTrees ==
    {DecoratorTree(k, subs, 0, 0) :
        k \in DecoratorKinds \ {"RepeatN", "WithTimeout"}, subs \in {<<>>, <<WildAction>>}}
    \cup {DecoratorTree("RepeatN", subs, c, 0) : subs \in {<<>>, <<WildAction>>}, c \in -1..MaxCountBound}
    \cup {DecoratorTree("WithTimeout", subs, 0, d) : subs \in {<<>>, <<WildAction>>}, d \in 0..MaxDuration}
    \cup {DecoratorTree("Repeat", <<BoolCondition>>, 0, 0)}
    \cup {DecoratorTree("Invert", <<DecoratorTree("Invert", <<WildAction>>, 0, 0)>>, 0, 0)}
    \cup {LogTree(subs, message, level) :
            subs \in {<<>>, <<WildAction>>}, message \in {"", "checkpoint"},
            level \in {<<>>, <<"ERROR">>}}

CompositeTrees ==
    {CompositeTree([i \in 1..n |-> WildCondition], subs) : n \in 0..2, subs \in {<<>>, <<WildAction>>}}

MixedTrees ==
    { ListTree("Sequence",
        << DecoratorTree("Retry", <<WildAction>>, 0, 0),
           DecoratorTree("Invert", <<WildCondition>>, 0, 0),
           CompositeTree(<<BoolCondition>>, <<DecoratorTree("RepeatN", <<GoodAction>>, 2, 0)>>) >>, 0),
      ListTree("Parallel",
        << DecoratorTree("AlwaysSuccess", <<WildAction>>, 0, 0),
           DecoratorTree("WhileFailure", <<GoodAction>>, 0, 0),
           DecoratorTree("Log", <<DecoratorTree("Forever", <<GoodAction>>, 0, 0)>>, 0, 0) >>, 2),
      ListTree("Selector",
        << DecoratorTree("WithTimeout", <<DecoratorTree("Repeat", <<GoodAction>>, 0, 0)>>, 0, 1),
           DecoratorTree("AlwaysFailure", <<WildAction>>, 0, 0),
           DecoratorTree("WhileSuccess", <<BoolCondition>>, 0, 0) >>, 0) }

\* New(nil)
NoRoot == <<>>

Trees == {NoRoot} \cup LeafTrees \cup ListTrees \cup DecoratorTrees \cup CompositeTrees \cup MixedTrees

\* ------------------------------------------------------------------ state
\* The state after construction of tree t: New(root) with every status Ready, every
\* Count 0, every startTime zero.
InitTree(t) ==
    /\ tree = t
    /\ status = [n \in DOMAIN t |-> Ready]
    /\ Count = [n \in DOMAIN t |-> 0]
    /\ MinSuccessCount = [n \in DOMAIN t |-> t[n].MinSuccessCount]
    /\ startTime = [n \in DOMAIN t |-> 0]
    /\ btStatus = Ready
    /\ now = 1
    /\ op = [kind |-> "New", r |-> Ready]
    /\ log = [ret |-> [n \in DOMAIN t |-> <<>>], cached |-> [n \in DOMAIN t |-> <<>>],
              raw |-> [n \in DOMAIN t |-> <<>>], resets |-> [n \in DOMAIN t |-> 0], order |-> <<>>,
              slog |-> <<>>]
    /\ lastRet = [n \in DOMAIN t |-> Ready]
    /\ hist = <<>>

Init == \E t \in Trees : InitTree(t)

\* The node fields and the log after a call that left the machine in m.
Store(m) ==
    /\ status' = m.status
    /\ Count' = m.Count
    /\ MinSuccessCount' = m.MinSuccessCount
    /\ startTime' = m.startTime
    /\ log' = m.log
    /\ lastRet' = m.last

\* The host calls BehaviorTree.Tick; the callbacks invoked return what o says.
TickTree(o) ==
    LET m == BehaviorTreeTick(Machine, o)
    IN  /\ Store(m)
        /\ btStatus' = m.r
        /\ op' = [kind |-> "Tick", r |-> m.r]
        /\ UNCHANGED <<tree, now>>

\* The host calls BehaviorTree.Reset.
ResetTree ==
    LET m == BehaviorTreeReset(Machine)
    IN  /\ Store(m)
        /\ btStatus' = Ready
        /\ op' = [kind |-> "Reset", r |-> Ready]
        /\ UNCHANGED <<tree, now>>

HasTimer == \E n \in Nodes : tree[n].kind = "WithTimeout"

\* Wall-clock time passes between two calls.
AdvanceTime ==
    /\ HasTimer
    /\ now < MaxTime
    /\ now' = now + 1
    /\ UNCHANGED <<tree, status, Count, MinSuccessCount, startTime, btStatus, op, log, lastRet, hist>>

\* RepeatN.Count grows without limit when MaxCount <= 0: ticking stops at CountLimit.
CanTick == \A n \in Nodes : Count[n] < CountLimit

DoTick == CanTick /\ \E o \in Oracles : TickTree(o) /\ UNCHANGED hist

DoReset == ResetTree /\ UNCHANGED hist

Next == DoTick \/ DoReset \/ AdvanceTime

Spec == Init /\ [][Next]_vars

\* ------------------------------------------------------- the control loop
\* The host's control loop: it ticks the tree up to MaxTicks times and may reset
\* it at any point; hist keeps, for every tick since the last reset, what the
\* tick returned, its log and the counters it left.
LoopTrees == {t \in DecoratorTrees : Len(t) = 2 /\ t[1].kind # "WithTimeout"}

InitLoop == \E t \in LoopTrees : InitTree(t)

LoopTick ==
    /\ CanTick
    /\ Len(hist) < MaxTicks
    /\ \E o \in Oracles : TickTree(o)
    /\ hist' = Append(hist, [r |-> op'.r, log |-> log', Count |-> Count', status |-> status'])

LoopReset == ResetTree /\ hist' = <<>>

NextLoop == LoopTick \/ LoopReset

SpecLoop == InitLoop /\ [][NextLoop]_vars

\* ------------------------------------------- the control loop with a clock
\* The host's loop around a WithTimeout: up to MaxTicks calls of Tick or Reset
\* with time passing between them; hist keeps every call since construction
\* with the time it was made at.
TimerTrees == {DecoratorTree("WithTimeout", <<GoodAction>>, 0, d) : d \in 0..MaxDuration}

InitTimer == \E t \in TimerTrees : InitTree(t)

TimerTick ==
    /\ Len(hist) < MaxTicks
    /\ \E o \in Oracles : TickTree(o)
    /\ hist' = Append(hist, [kind |-> "Tick", r |-> op'.r, log |-> log', status |-> status',
                             startTime |-> startTime', now |-> now])

TimerReset ==
    /\ Len(hist) < MaxTicks
    /\ ResetTree
    /\ hist' = Append(hist, [kind |-> "Reset", r |-> op'.r, log |-> log', status |-> status',
                             startTime |-> startTime', now |-> now])

NextTimer == TimerTick \/ TimerReset \/ AdvanceTime

SpecTimer == InitTimer /\ [][NextTimer]_vars

\* ------------------------------------ the control loop around a child list
\* The host's loop around a Sequence or a Parallel of two actions: up to
\* MaxRounds calls of Tick or Reset; hist keeps every call since construction.
RoundTrees ==
    {ListTree("Sequence", <<GoodAction, GoodAction>>, 0)}
    \cup {ListTree("Parallel", <<GoodAction, GoodAction>>, min) : min \in 0..3}

InitRounds == \E t \in RoundTrees : InitTree(t)

RoundTick ==
    /\ Len(hist) < MaxRounds
    /\ \E o \in Oracles : TickTree(o)
    /\ hist' = Append(hist, [kind |-> "Tick", r |-> op'.r, log |-> log', status |-> status',
                             MinSuccessCount |-> MinSuccessCount'])

RoundReset ==
    /\ Len(hist) < MaxRounds
    /\ ResetTree
    /\ hist' = Append(hist, [kind |-> "Reset", r |-> op'.r, log |-> log', status |-> status',
                             MinSuccessCount |-> MinSuccessCount'])

NextRounds == RoundTick \/ RoundReset

SpecRounds == InitRounds /\ [][NextRounds]_vars

\* ---------------------------------------- the control loop around a RepeatN
\* The host's loop around a RepeatN with MaxCount >= 1: up to MaxTicks calls of
\* Tick or Reset in any order; hist keeps every call since construction with
\* the Count it found and the Count it left.
CountTrees ==
    {DecoratorTree("RepeatN", subs, c, 0) :
        subs \in {<<>>, <<WildAction>>, <<GoodAction>>}, c \in 1..MaxCountBound}

InitCount == \E t \in CountTrees : InitTree(t)

CountTick ==
    /\ Len(hist) < MaxTicks
    /\ \E o \in Oracles : TickTree(o)
    /\ hist' = Append(hist, [kind |-> "Tick", r |-> op'.r, log |-> log', status |-> status',
                             before |-> Count, Count |-> Count'])

CountReset ==
    /\ Len(hist) < MaxTicks
    /\ ResetTree
    /\ hist' = Append(hist, [kind |-> "Reset", r |-> op'.r, log |-> log', status |-> status',
                             before |-> Count, Count |-> Count'])

NextCount == CountTick \/ CountReset

SpecCount == InitCount /\ [][NextCount]_vars

\* ------------------------------------- a Selector beside its De Morgan dual
\* Under a Parallel, which ticks every child, a Selector of actions and an
\* Invert of a Sequence of Inverts of actions running the same callbacks: the
\* i-th Run of either side returns the same value when invoked in a tick.
DualLen == 3

DualTrees ==
    {ListTree("Parallel",
        << ListTree("Selector", [i \in 1..n |-> WildAction], 0),
           DecoratorTree("Invert",
               <<ListTree("Sequence", [i \in 1..n |-> DecoratorTree("Invert", <<WildAction>>, 0, 0)], 0)>>,
               0, 0) >>, 2) : n \in 0..DualLen}

DualSelector == tree[1].kids[1]
DualInvert == tree[1].kids[2]
DualSequence == Child(DualInvert)
DualLeft(i) == tree[DualSelector].kids[i]
DualRight(i) == Child(tree[DualSequence].kids[i])
DualIndex(l) == CHOOSE i \in 1..Len(tree[DualSelector].kids) : l \in {DualLeft(i), DualRight(i)}

DualOracles ==
    {[l \in Leaves |-> f[DualIndex(l)]] : f \in [1..Len(tree[DualSelector].kids) -> RawStatus]}

InitDual == \E t \in DualTrees : InitTree(t)

DualTick == \E o \in DualOracles : TickTree(o) /\ UNCHANGED hist

DualReset == ResetTree /\ UNCHANGED hist

NextDual == DualTick \/ DualReset

SpecDual == InitDual /\ [][NextDual]_vars

\* ----------------------------------------------------- reading the log
\* Node n was ticked in the last call, and what it returned.
Ticked(n) == Len(log.ret[n]) > 0
Returned(n) == log.ret[n][1]

\* The children of n in the order their Tick was called in the last call.
KidsTickOrder(n) ==
    SelectSeq(log.order, LAMBDA x : \E i \in 1..Len(tree[n].kids) : tree[n].kids[i] = x)

\* The conditions of Composite n, and those among them and its child in the
\* order their Tick was called in the last call.
Conds(n) == {tree[n].conds[i] : i \in 1..Len(tree[n].conds)}
CondsTickOrder(n) == SelectSeq(log.order, LAMBDA x : x \in Conds(n))
GateTickOrder(n) ==
    SelectSeq(log.order, LAMBDA x : x \in Conds(n) \/ (HasChild(n) /\ x = Child(n)))

\* The children of n that returned one of the statuses in S in the last call.
KidsReturning(n, S) ==
    {i \in 1..Len(tree[n].kids) : Ticked(tree[n].kids[i]) /\ Returned(tree[n].kids[i]) \in S}

\* ------------------------------------------------------------------ claims
\* C1: Sequence.Tick ticks its children in list order from the first; the first
\* child to return a status other than Success decides: Sequence returns and
\* caches exactly that status and ticks no later child; it returns Success exactly
\* when every child returned Success in this call (the empty list included).
C1_SequenceShortCircuit ==
    \A n \in Nodes :
        tree[n].kind = "Sequence" /\ Len(log.ret[n]) = 1 =>
            LET kids == tree[n].kids
            IN  /\ KidsTickOrder(n) = SubSeq(kids, 1, Len(KidsTickOrder(n)))
                /\ \A i \in KidsReturning(n, Statuses \ {Success}) :
                      /\ Returned(n) = Returned(kids[i])
                      /\ \A j \in (i + 1)..Len(kids) : ~Ticked(kids[j])
                /\ Returned(n) = Success <=> \A i \in 1..Len(kids) : log.ret[kids[i]] = <<Success>>
                /\ log.cached[n] = <<Returned(n)>>

\* A Sequence of three children stopped at the second, which returned Running.
C1_Witness ==
    /\ op.kind = "Tick" /\ Nodes # {} /\ tree[1].kind = "Sequence" /\ Len(tree[1].kids) = 3
    /\ log.ret[tree[1].kids[1]] = <<Success>>
    /\ log.ret[tree[1].kids[2]] = <<Running>>
    /\ log.ret[tree[1].kids[3]] = <<>>
    /\ log.ret[1] = <<Running>> /\ status[1] = Running

\* C2: Selector.Tick ticks its children in list order; Failure lets it continue;
\* the first child returning Ready, Running or Success decides: Selector returns
\* and caches exactly that status and ticks no later child; if every child
\* returned Failure, or there is no child, it returns Failure.
C2_SelectorShortCircuit ==
    \A n \in Nodes :
        tree[n].kind = "Selector" /\ Len(log.ret[n]) = 1 =>
            LET kids == tree[n].kids
            IN  /\ KidsTickOrder(n) = SubSeq(kids, 1, Len(KidsTickOrder(n)))
                /\ \A i \in KidsReturning(n, Statuses \ {Failure}) :
                      /\ Returned(n) = Returned(kids[i])
                      /\ \A j \in (i + 1)..Len(kids) : ~Ticked(kids[j])
                /\ (\A i \in 1..Len(kids) : log.ret[kids[i]] = <<Failure>>) => Returned(n) = Failure
                /\ \A i \in KidsReturning(n, {Failure}) :
                      i < Len(kids) /\ KidsReturning(n, Statuses \ {Failure}) \cap 1..i = {}
                          => Ticked(kids[i + 1])
                /\ log.cached[n] = <<Returned(n)>>

\* A Selector of three children: the first failed, the second returned Ready.
C2_Witness ==
    /\ op.kind = "Tick" /\ Nodes # {} /\ tree[1].kind = "Selector" /\ Len(tree[1].kids) = 3
    /\ log.ret[tree[1].kids[1]] = <<Failure>>
    /\ log.ret[tree[1].kids[2]] = <<Ready>>
    /\ log.ret[tree[1].kids[3]] = <<>>
    /\ log.ret[1] = <<Ready>> /\ status[1] = Ready

\* C3: Parallel.Tick with n >= 1 children and effective minimum M returns Success
\* if the children that returned Success number at least M; otherwise Failure if
\* successes plus children that returned Running or Ready number less than M;
\* otherwise Running.  With no children it returns Success.
C3_ParallelThreshold ==
    \A n \in Nodes :
        tree[n].kind = "Parallel" /\ Len(log.ret[n]) = 1 =>
            LET M == MinSuccessCount[n]
                succ == Cardinality(KidsReturning(n, {Success}))
                pend == Cardinality(KidsReturning(n, {Running, Ready}))
            IN  IF Len(tree[n].kids) = 0 THEN Returned(n) = Success
                ELSE IF succ >= M THEN Returned(n) = Success
                ELSE IF succ + pend < M THEN Returned(n) = Failure
                ELSE Returned(n) = Running

\* Three children, MinSuccessCount 2, results Success, Failure, Running: Running.
C3_Witness ==
    /\ op.kind = "Tick" /\ Nodes # {} /\ tree[1].kind = "Parallel" /\ Len(tree[1].kids) = 3
    /\ tree[1].MinSuccessCount = 2
    /\ log.ret[tree[1].kids[1]] = <<Success>>
    /\ log.ret[tree[1].kids[2]] = <<Failure>>
    /\ log.ret[tree[1].kids[3]] = <<Running>>
    /\ log.ret[1] = <<Running>>

\* C4: after any sequence of ticks, Reset makes Status() of the node and of
\* every descendant return Ready (whatever a callback would answer), and
\* BehaviorTree.Reset leaves the tree's own status Ready.
C4_ResetRestoresReady ==
    op.kind = "Reset" =>
        /\ btStatus = Ready
        /\ \A n \in Nodes : \A o \in Oracles : NodeStatus(Machine, o, n).r = Ready

\* C4 for the nodes that keep their status in a field (every type but the
\* Condition whose Status() evaluates Check).
C4_ResetRestoresCachedReady ==
    op.kind = "Reset" =>
        /\ btStatus = Ready
        /\ \A n \in Nodes : tree[n].kind # "Condition" =>
              \A o \in Oracles : NodeStatus(Machine, o, n).r = Ready

\* C5: Status() returns what the node's most recent Tick returned, or Ready if
\* it was not ticked since construction or its last Reset; it invokes no host
\* callback and changes no node state.
C5_StatusPureAccessor ==
    \A n \in Nodes : \A o \in Oracles :
        LET m == NodeStatus(Machine, o, n)
        IN  /\ m.r = lastRet[n]
            /\ \A k \in Nodes : m.log.raw[k] = <<>>
            /\ m.status = status /\ m.Count = Count
            /\ m.MinSuccessCount = MinSuccessCount /\ m.startTime = startTime

\* C6: Action.Tick and the caching Condition.Tick return and cache Failure when
\* the callback is absent; otherwise they invoke it exactly once, return and
\* cache its result unchanged when it is one of the four statuses, and return
\* and cache Failure when it is any other value.
C6_LeafNormalizes ==
    \A n \in Nodes :
        tree[n].kind \in {"Action", "CachedCondition"} /\ Len(log.ret[n]) = 1 =>
            /\ log.cached[n] = <<Returned(n)>>
            /\ IF ~tree[n].cb
               THEN Returned(n) = Failure /\ log.raw[n] = <<>>
               ELSE /\ Len(log.raw[n]) = 1
                    /\ log.raw[n][1] \in Statuses => Returned(n) = log.raw[n][1]
                    /\ log.raw[n][1] \notin Statuses => Returned(n) = Failure

\* A Condition whose Check returned a value outside the four statuses.
C6_Witness ==
    /\ op.kind = "Tick" /\ Nodes # {} /\ tree[1].kind = "CachedCondition"
    /\ log.raw[1] = <<Failure + 1>> /\ log.ret[1] = <<Failure>> /\ status[1] = Failure

\* C7: every Tick of every node and of the BehaviorTree returns one of Ready,
\* Running, Success, Failure, and every cached status is one of the four,
\* whatever the leaf callbacks return.
C7_StatusClosed ==
    /\ op.r \in Statuses
    /\ btStatus \in Statuses
    /\ \A n \in Nodes :
          /\ status[n] \in Statuses
          /\ \A i \in 1..Len(log.ret[n]) : log.ret[n][i] \in Statuses
          /\ \A i \in 1..Len(log.cached[n]) : log.cached[n][i] \in Statuses

\* A tick of a tree of several levels in which a callback returned a value
\* outside the four statuses.
C7_Witness ==
    /\ op.kind = "Tick" /\ Len(tree) > 2
    /\ \E n \in Nodes : log.raw[n] = <<Failure + 1>> /\ log.ret[n] = <<Failure>>

\* C9: Retry.Tick maps the child's Success to Success, Running to Running and
\* Failure to Running, and resets the child exactly once on a tick where it
\* returned Failure and not at all where it returned Success or Running.
C9_RetryMapping ==
    \A n \in Nodes :
        tree[n].kind = "Retry" /\ Len(log.ret[n]) = 1 /\ HasChild(n) =>
            LET c == Child(n)
            IN  /\ log.ret[c] = <<Success>> =>
                      Returned(n) = Success /\ status[n] = Success /\ log.resets[c] = 0
                /\ log.ret[c] = <<Running>> =>
                      Returned(n) = Running /\ status[n] = Running /\ log.resets[c] = 0
                /\ log.ret[c] = <<Failure>> =>
                      Returned(n) = Running /\ status[n] = Running /\ log.resets[c] = 1
                /\ Len(log.ret[c]) = 1

\* A Retry whose child failed: Running, the child reset once and Ready again.
C9_Witness ==
    /\ op.kind = "Tick" /\ Nodes # {} /\ tree[1].kind = "Retry" /\ HasChild(1)
    /\ log.ret[Child(1)] = <<Failure>> /\ log.resets[Child(1)] = 1 /\ status[Child(1)] = Ready
    /\ log.ret[1] = <<Running>>

\* --------------------------------------------- claims about runs of ticks
\* In each of the ticks 1..k since the last reset in which the root's child was
\* ticked, it returned a status in S.
ChildAlways(k, S) ==
    \A j \in 1..k : \A i \in 1..Len(hist[j].log.ret[2]) : hist[j].log.ret[2][i] \in S

\* C8: RepeatN with MaxCount = N >= 1 over a child whose every tick returns
\* Success or Failure: ticks 1..N-1 return Running with Count equal to the tick
\* number and the child reset after each; tick N returns the child's status of
\* that tick with Count = N; every later tick returns that status again without
\* ticking the child or changing Count.
C8_RepeatNExactCount ==
    tree[1].kind = "RepeatN" /\ tree[1].MaxCount >= 1 =>
        LET N == tree[1].MaxCount
        IN  \A k \in 1..Len(hist) :
                ChildAlways(k, {Success, Failure}) =>
                    /\ k < N => /\ hist[k].r = Running
                                /\ hist[k].log.ret[1] = <<Running>>
                                /\ hist[k].Count[1] = k
                                /\ Len(hist[k].log.ret[2]) = 1
                                /\ hist[k].log.resets[2] = 1
                                /\ hist[k].status[2] = Ready
                    /\ k = N => /\ Len(hist[k].log.ret[2]) = 1
                                /\ hist[k].log.ret[1] = hist[k].log.ret[2]
                                /\ hist[k].r = hist[k].log.ret[2][1]
                                /\ hist[k].Count[1] = N
                    /\ k > N => /\ hist[k].r = hist[N].r
                                /\ hist[k].log.ret[1] = <<hist[N].r>>
                                /\ hist[k].log.ret[2] = <<>>
                                /\ hist[k].log.raw[2] = <<>>
                                /\ hist[k].Count[1] = N

\* MaxCount 3, child always Success: Running, Running, Success, Success, the
\* fourth tick without the child and with Count still 3.
C8_Witness ==
    /\ tree[1].kind = "RepeatN" /\ tree[1].MaxCount = 3 /\ Len(hist) = 4
    /\ \A k \in 1..3 : hist[k].log.ret[2] = <<Success>> /\ hist[k].Count[1] = k
    /\ hist[1].r = Running /\ hist[2].r = Running /\ hist[3].r = Success
    /\ hist[4].r = Success /\ hist[4].log.ret[2] = <<>> /\ Count[1] = 3

\* C10: if the child of a Retry fails on its first k ticks and succeeds on tick
\* k+1, the Retry returns Running on each of the first k ticks and Success on
\* tick k+1, ticking the child once per tick (k+1 times in all); it never
\* returns Failure before the child succeeds.
C10_RetryUntilSuccess ==
    tree[1].kind = "Retry" =>
        \A k \in 1..Len(hist) :
            (\A j \in 1..(k - 1) : hist[j].log.ret[2] = <<Failure>>) =>
                /\ Len(hist[k].log.ret[2]) = 1
                /\ hist[k].r # Failure
                /\ hist[k].log.ret[2] = <<Failure>> => hist[k].r = Running
                /\ hist[k].log.ret[2] = <<Success>> => hist[k].r = Success

\* The child failed twice and then succeeded: Running, Running, Success.
C10_Witness ==
    /\ tree[1].kind = "Retry" /\ Len(hist) = 3
    /\ hist[1].log.ret[2] = <<Failure>> /\ hist[2].log.ret[2] = <<Failure>>
    /\ hist[3].log.ret[2] = <<Success>>
    /\ hist[1].r = Running /\ hist[2].r = Running /\ hist[3].r = Success
    /\ hist[1].log.resets[2] = 1

\* ------------------------------------------------ claims about decorators
\* C11: Repeat.Tick with a child ticks it exactly once and maps its Success to
\* Running (resetting the child, whose Status() is Ready afterwards), its
\* Running to Running and its Failure to Failure.
C11_RepeatMapping ==
    \A n \in Nodes :
        tree[n].kind = "Repeat" /\ Len(log.ret[n]) = 1 /\ log.resets[n] = 0 /\ HasChild(n) =>
            LET c == Child(n)
            IN  /\ Len(log.ret[c]) = 1
                /\ log.ret[c] = <<Success>> =>
                      /\ Returned(n) = Running /\ status[n] = Running /\ log.resets[c] = 1
                      /\ \A o \in Oracles : NodeStatus(Machine, o, c).r = Ready
                /\ log.ret[c] = <<Running>> =>
                      Returned(n) = Running /\ status[n] = Running /\ log.resets[c] = 0
                /\ log.ret[c] = <<Failure>> =>
                      Returned(n) = Failure /\ status[n] = Failure /\ log.resets[c] = 0

\* C11 with Status() of the child read from its status field (every child but
\* the Condition whose Status() evaluates Check).
C11_RepeatMappingCached ==
    \A n \in Nodes :
        tree[n].kind = "Repeat" /\ Len(log.ret[n]) = 1 /\ log.resets[n] = 0 /\ HasChild(n) =>
            LET c == Child(n)
            IN  /\ Len(log.ret[c]) = 1
                /\ log.ret[c] = <<Success>> =>
                      /\ Returned(n) = Running /\ status[n] = Running /\ log.resets[c] = 1
                      /\ status[c] = Ready
                /\ log.ret[c] = <<Running>> =>
                      Returned(n) = Running /\ status[n] = Running /\ log.resets[c] = 0
                /\ log.ret[c] = <<Failure>> =>
                      Returned(n) = Failure /\ status[n] = Failure /\ log.resets[c] = 0

\* C11 over a run: while the child of a Repeat has succeeded on every earlier
\* tick, the Repeat returns Running on a tick where it succeeds and Failure on
\* the tick where it fails, ticking the child once per tick.
C11_RepeatUntilFailure ==
    tree[1].kind = "Repeat" =>
        \A k \in 1..Len(hist) :
            (\A j \in 1..(k - 1) : hist[j].log.ret[2] = <<Success>>) =>
                /\ Len(hist[k].log.ret[2]) = 1
                /\ \A j \in 1..(k - 1) : hist[j].r = Running
                /\ hist[k].log.ret[2] = <<Success>> => hist[k].r = Running
                /\ hist[k].log.ret[2] = <<Failure>> => hist[k].r = Failure

\* The child succeeded twice and then failed: Running, Running, Failure.
C11_Witness ==
    /\ tree[1].kind = "Repeat" /\ Len(hist) = 3
    /\ hist[1].log.ret[2] = <<Success>> /\ hist[2].log.ret[2] = <<Success>>
    /\ hist[3].log.ret[2] = <<Failure>>
    /\ hist[1].r = Running /\ hist[2].r = Running /\ hist[3].r = Failure

\* C12: AlwaysSuccess.Tick returns and caches Success whatever its child
\* returned (Success, Failure, Running or Ready) and with no child; a child is
\* ticked exactly once per tick.
C12_AlwaysSuccessRegardless ==
    \A n \in Nodes :
        tree[n].kind = "AlwaysSuccess" /\ Len(log.ret[n]) = 1 =>
            /\ Returned(n) = Success
            /\ log.cached[n] = <<Success>>
            /\ HasChild(n) => Len(log.ret[Child(n)]) = 1

\* What AlwaysSuccess.Tick does: the child, ticked once, decides; only its
\* Failure is rewritten to Success, and without a child the result is Success.
C12_AlwaysSuccessRewritesFailure ==
    \A n \in Nodes :
        tree[n].kind = "AlwaysSuccess" /\ Len(log.ret[n]) = 1 =>
            /\ log.cached[n] = log.ret[n]
            /\ ~HasChild(n) => Returned(n) = Success
            /\ HasChild(n) =>
                  /\ Len(log.ret[Child(n)]) = 1
                  /\ Returned(n) = IF Returned(Child(n)) = Failure THEN Success
                                   ELSE Returned(Child(n))

\* C13: AlwaysFailure.Tick returns and caches Failure whatever its child
\* returned (Success, Failure, Running or Ready) and with no child; a child is
\* ticked exactly once per tick.
C13_AlwaysFailureRegardless ==
    \A n \in Nodes :
        tree[n].kind = "AlwaysFailure" /\ Len(log.ret[n]) = 1 =>
            /\ Returned(n) = Failure
            /\ log.cached[n] = <<Failure>>
            /\ HasChild(n) => Len(log.ret[Child(n)]) = 1

\* What AlwaysFailure.Tick does: the child, ticked once, decides; only its
\* Success is rewritten to Failure, and without a child the result is Failure.
C13_AlwaysFailureRewritesSuccess ==
    \A n \in Nodes :
        tree[n].kind = "AlwaysFailure" /\ Len(log.ret[n]) = 1 =>
            /\ log.cached[n] = log.ret[n]
            /\ ~HasChild(n) => Returned(n) = Failure
            /\ HasChild(n) =>
                  /\ Len(log.ret[Child(n)]) = 1
                  /\ Returned(n) = IF Returned(Child(n)) = Success THEN Failure
                                   ELSE Returned(Child(n))

\* C14: a RepeatN with MaxCount <= 0 and a child ticks the child once per tick,
\* returns and caches the child's status unchanged, and does not count: Count
\* stays 0.
C14_RepeatNPassThrough ==
    \A n \in Nodes :
        /\ tree[n].kind = "RepeatN" /\ tree[n].MaxCount <= 0 /\ HasChild(n)
        /\ Len(log.ret[n]) = 1 /\ log.resets[n] = 0
        => /\ Len(log.ret[Child(n)]) = 1
           /\ log.ret[n] = log.ret[Child(n)]
           /\ log.cached[n] = log.ret[Child(n)]
           /\ Count[n] = 0

\* What RepeatN.Tick does with MaxCount <= 0: the child is ticked once and the
\* result is Running whatever it returned; a child that did not return Running
\* is counted and reset.
C14_RepeatNNeverFinishes ==
    \A n \in Nodes :
        /\ tree[n].kind = "RepeatN" /\ tree[n].MaxCount <= 0 /\ HasChild(n)
        /\ Len(log.ret[n]) = 1 /\ log.resets[n] = 0
        => /\ Len(log.ret[Child(n)]) = 1
           /\ log.ret[n] = <<Running>> /\ log.cached[n] = <<Running>>
           /\ Returned(Child(n)) # Running => Count[n] > 0 /\ log.resets[Child(n)] = 1

\* RepeatN.Count before the k-th tick since the last reset.
CountBefore(k) == IF k = 1 THEN 0 ELSE hist[k - 1].Count[1]

\* C15: RepeatN.Count changes only on a tick in which the child returned
\* Success or Failure, and then by exactly 1; on a tick in which the child
\* returned Running it is unchanged and RepeatN returns Running.
C15_CountOnlyOnCompletion ==
    tree[1].kind = "RepeatN" =>
        \A k \in 1..Len(hist) :
            /\ hist[k].Count[1] # CountBefore(k) =>
                  /\ hist[k].log.ret[2] \in {<<Success>>, <<Failure>>}
                  /\ hist[k].Count[1] = CountBefore(k) + 1
            /\ hist[k].log.ret[2] = <<Running>> =>
                  hist[k].Count[1] = CountBefore(k) /\ hist[k].r = Running

\* What RepeatN.Tick does: Count grows by 1 on every tick in which the child was
\* ticked and returned anything but Running (Ready included), and not otherwise.
C15_CountOnNotRunning ==
    tree[1].kind = "RepeatN" =>
        \A k \in 1..Len(hist) :
            /\ hist[k].Count[1] # CountBefore(k) =>
                  /\ Len(hist[k].log.ret[2]) = 1 /\ hist[k].log.ret[2] # <<Running>>
                  /\ hist[k].Count[1] = CountBefore(k) + 1
            /\ hist[k].log.ret[2] = <<Running>> =>
                  hist[k].Count[1] = CountBefore(k) /\ hist[k].r = Running
            /\ Len(hist[k].log.ret[2]) = 1 /\ hist[k].log.ret[2] # <<Running>> =>
                  hist[k].Count[1] = CountBefore(k) + 1

\* ------------------------------------------------ claims about WithTimeout
\* The first call after construction or after the most recent Reset before the
\* k-th call, the k-th call itself if nothing but Resets came before it.
Epoch(k) ==
    CHOOSE j \in 1..k :
        /\ j = 1 \/ hist[j - 1].kind = "Reset"
        /\ \A i \in j..(k - 1) : hist[i].kind = "Tick"

\* The child returned Running on every tick from Epoch(k) to the k-th call.
RunningSince(k) == \A j \in Epoch(k)..k : hist[j].log.ret[2] = <<Running>>

\* The time between the tick at Epoch(k) and the k-th call.
Elapsed(k) == hist[k].now - hist[Epoch(k)].now

\* C16: while the child of a WithTimeout has returned Running on every tick
\* since construction or the last Reset, a tick made less than Duration after
\* the first of these ticks returns Running, and a tick made Duration or more
\* after it returns Failure.
C16_TimeoutBoundary ==
    \A k \in 1..Len(hist) :
        hist[k].kind = "Tick" /\ RunningSince(k) =>
            /\ hist[k].r = IF Elapsed(k) < tree[1].Duration THEN Running ELSE Failure
            /\ hist[k].status[1] = hist[k].r

\* Duration 2, the child Running at times 1, 2, 3 and 3 again: Running, Running,
\* Failure, Failure.
C16_Witness ==
    /\ tree[1].Duration = 2 /\ Len(hist) = 4
    /\ \A k \in 1..4 : hist[k].kind = "Tick" /\ hist[k].log.ret[2] = <<Running>>
    /\ hist[1].now = 1 /\ hist[2].now = 2 /\ hist[3].now = 3
    /\ hist[1].r = Running /\ hist[2].r = Running
    /\ hist[3].r = Failure /\ hist[4].r = Failure

\* C17: on a tick in which the child returns Success or Failure, WithTimeout
\* returns and caches that status, whatever time has elapsed and whatever it
\* returned before.
C17_TerminalPassesThrough ==
    \A k \in 1..Len(hist) :
        hist[k].kind = "Tick" /\ hist[k].log.ret[2] \in {<<Success>>, <<Failure>>} =>
            /\ hist[k].r = hist[k].log.ret[2][1]
            /\ hist[k].status[1] = hist[k].log.ret[2][1]
            /\ hist[k].log.cached[1] = hist[k].log.ret[2]

\* The child was Running until the deadline passed and WithTimeout returned
\* Failure; the child then succeeds and WithTimeout returns Success.
C17_Witness ==
    /\ tree[1].Duration >= 1 /\ Len(hist) = 3
    /\ \A k \in 1..3 : hist[k].kind = "Tick"
    /\ hist[1].log.ret[2] = <<Running>> /\ hist[1].r = Running
    /\ hist[2].log.ret[2] = <<Running>> /\ hist[2].r = Failure
    /\ hist[3].log.ret[2] = <<Success>> /\ hist[3].r = Success
    /\ Elapsed(3) >= tree[1].Duration

\* C18: the start time of a WithTimeout is the time of the first tick after
\* construction or after the most recent Reset and no later tick changes it;
\* Reset clears it, so that a child Running ever since the Reset keeps
\* WithTimeout Running until Duration has elapsed from the first tick after the
\* Reset; a WithTimeout that was never ticked stays Ready.
C18_DeadlineFromFirstTick ==
    /\ \A k \in 1..Len(hist) :
          /\ hist[k].kind = "Tick" => hist[k].startTime[1] = hist[Epoch(k)].now
          /\ hist[k].kind = "Reset" => hist[k].startTime[1] = 0 /\ hist[k].status[1] = Ready
          /\ hist[k].kind = "Tick" /\ Epoch(k) > 1 /\ RunningSince(k)
             /\ Elapsed(k) < tree[1].Duration => hist[k].r = Running
    /\ (\A k \in 1..Len(hist) : hist[k].kind = "Reset") =>
          status[1] = Ready /\ startTime[1] = 0

\* Duration 1: a tick at time 1, a Reset and a tick at time 2 with the child
\* Running: the second tick is Running again and the start time is 2.
C18_Witness ==
    /\ tree[1].Duration = 1 /\ Len(hist) = 3
    /\ hist[1].kind = "Tick" /\ hist[1].now = 1 /\ hist[1].startTime[1] = 1
    /\ hist[2].kind = "Reset" /\ hist[2].now = 2 /\ hist[2].startTime[1] = 0
    /\ hist[3].kind = "Tick" /\ hist[3].now = 2 /\ hist[3].log.ret[2] = <<Running>>
    /\ hist[3].r = Running /\ startTime[1] = 2

\* --------------------------------------------------- claims about Composite
\* C19: Composite.Tick with at least one condition ticks the conditions in list
\* order; a Success goes on to the next, the first Running makes it return
\* Running and the first Failure or Ready makes it return Failure, in both cases
\* without ticking a later condition or the Child; the Child is ticked only
\* after every condition returned Success, and its status is then returned and
\* cached unchanged.
C19_CompositeGate ==
    \A n \in Nodes :
        tree[n].kind = "Composite" /\ Len(log.ret[n]) = 1 /\ Len(tree[n].conds) >= 1 =>
            LET cs == tree[n].conds
                j == Len(CondsTickOrder(n))
                last == Returned(cs[j])
            IN  /\ j >= 1 /\ CondsTickOrder(n) = SubSeq(cs, 1, j)
                /\ \A i \in 1..j : Len(log.ret[cs[i]]) = 1
                /\ \A i \in 1..(j - 1) : Returned(cs[i]) = Success
                /\ j < Len(cs) => last # Success
                /\ last = Running =>
                      log.ret[n] = <<Running>> /\ log.cached[n] = <<Running>>
                /\ last \in {Failure, Ready} =>
                      log.ret[n] = <<Failure>> /\ log.cached[n] = <<Failure>>
                /\ HasChild(n) =>
                      /\ last # Success => ~Ticked(Child(n))
                      /\ last = Success =>
                            /\ GateTickOrder(n) = cs \o <<Child(n)>>
                            /\ Len(log.ret[Child(n)]) = 1
                            /\ log.ret[n] = log.ret[Child(n)]
                            /\ log.cached[n] = log.ret[Child(n)]

\* Two conditions and a child: the first condition succeeds, the second returns
\* Ready; the Composite fails and the child is not ticked.
C19_Witness ==
    /\ op.kind = "Tick" /\ Nodes # {} /\ tree[1].kind = "Composite"
    /\ Len(tree[1].conds) = 2 /\ HasChild(1)
    /\ log.ret[tree[1].conds[1]] = <<Success>>
    /\ log.ret[tree[1].conds[2]] = <<Ready>>
    /\ log.ret[1] = <<Failure>> /\ ~Ticked(Child(1))

\* C20: a Composite with no conditions and no child returns Failure; with no
\* conditions and a child it returns the child's status unchanged; with
\* conditions and no child it returns Success when every condition returned
\* Success, and otherwise Running or Failure as the stopping condition says.
C20_CompositeDegenerate ==
    \A n \in Nodes :
        tree[n].kind = "Composite" /\ Len(log.ret[n]) = 1 =>
            LET cs == tree[n].conds
            IN  /\ Len(cs) = 0 /\ ~HasChild(n) =>
                      log.ret[n] = <<Failure>> /\ log.cached[n] = <<Failure>>
                /\ Len(cs) = 0 /\ HasChild(n) =>
                      /\ Len(log.ret[Child(n)]) = 1
                      /\ log.ret[n] = log.ret[Child(n)]
                      /\ log.cached[n] = log.ret[Child(n)]
                /\ Len(cs) > 0 /\ ~HasChild(n) =>
                      LET j == Len(CondsTickOrder(n))
                      IN  /\ j >= 1
                          /\ Returned(n) = Success <=>
                                j = Len(cs) /\ \A i \in 1..j : Returned(cs[i]) = Success
                          /\ Returned(n) = Running <=> Returned(cs[j]) = Running
                          /\ Returned(n) \in {Success, Running, Failure}
                          /\ log.cached[n] = log.ret[n]

\* Two conditions that both succeed and no child: Success.
C20_Witness ==
    /\ op.kind = "Tick" /\ Nodes # {} /\ tree[1].kind = "Composite"
    /\ Len(tree[1].conds) = 2 /\ ~HasChild(1)
    /\ log.ret[tree[1].conds[1]] = <<Success>>
    /\ log.ret[tree[1].conds[2]] = <<Success>>
    /\ log.ret[1] = <<Success>>

\* ------------------------------------------- claims about rounds of ticks
\* C21: every Parallel.Tick on a non-empty child list ticks every child exactly
\* once, in list order, whatever the children return in this tick and whatever
\* they returned in earlier ticks.
C21_ParallelTicksAll ==
    tree[1].kind = "Parallel" =>
        \A k \in 1..Len(hist) :
            hist[k].kind = "Tick" =>
                /\ hist[k].log.order = <<1>> \o tree[1].kids
                /\ \A i \in 1..Len(tree[1].kids) : Len(hist[k].log.ret[tree[1].kids[i]]) = 1

\* The first child succeeded and the second failed in one tick, and both were
\* ticked again, in order, in the next.
C21_Witness ==
    /\ tree[1].kind = "Parallel" /\ Len(hist) >= 2
    /\ hist[1].kind = "Tick" /\ hist[2].kind = "Tick"
    /\ hist[1].log.ret[2] = <<Success>> /\ hist[1].log.ret[3] = <<Failure>>
    /\ hist[2].log.order = <<1, 2, 3>>
    /\ Len(hist[2].log.ret[2]) = 1 /\ Len(hist[2].log.ret[3]) = 1

\* C22: from the first Tick of a Parallel with n >= 1 children on,
\* MinSuccessCount is its constructed value brought into 1..n (1 for a value
\* below 1, n for a value above n), and later Ticks and Resets leave it there.
C22_MinSuccessCountClamped ==
    tree[1].kind = "Parallel" =>
        LET n == Len(tree[1].kids)
            c == tree[1].MinSuccessCount
        IN  \A k \in 1..Len(hist) :
                (\E j \in 1..k : hist[j].kind = "Tick") =>
                    /\ hist[k].MinSuccessCount[1] = IF c <= 0 THEN 1 ELSE IF c > n THEN n ELSE c
                    /\ hist[k].MinSuccessCount[1] \in 1..n

\* Constructed with 3 for two children: 2 after the first tick, after the Reset
\* that follows and after the next tick.
C22_Witness ==
    /\ tree[1].kind = "Parallel" /\ tree[1].MinSuccessCount = 3 /\ Len(tree[1].kids) = 2
    /\ Len(hist) = 3
    /\ hist[1].kind = "Tick" /\ hist[2].kind = "Reset" /\ hist[3].kind = "Tick"
    /\ \A k \in 1..3 : hist[k].MinSuccessCount[1] = 2
    /\ MinSuccessCount[1] = 2

\* ------------------------------------------ more claims about decorators
\* C23: Invert.Tick with a child ticks the child once and returns and caches
\* Failure for its Success, Success for its Failure, and its Running or Ready
\* unchanged.
C23_InvertMapping ==
    \A n \in Nodes :
        tree[n].kind = "Invert" /\ Len(log.ret[n]) = 1 /\ HasChild(n) =>
            LET c == Child(n)
            IN  /\ Len(log.ret[c]) = 1
                /\ log.cached[n] = log.ret[n]
                /\ log.ret[c] = <<Success>> => log.ret[n] = <<Failure>>
                /\ log.ret[c] = <<Failure>> => log.ret[n] = <<Success>>
                /\ log.ret[c] = <<Running>> => log.ret[n] = <<Running>>
                /\ log.ret[c] = <<Ready>> => log.ret[n] = <<Ready>>

\* An Invert whose child succeeded: Failure, returned and cached.
C23_Witness ==
    /\ op.kind = "Tick" /\ Nodes # {} /\ tree[1].kind = "Invert" /\ HasChild(1)
    /\ log.ret[Child(1)] = <<Success>>
    /\ log.ret[1] = <<Failure>> /\ status[1] = Failure

\* C24: Invert(Invert(child)).Tick returns what the child returned, for each of
\* Ready, Running, Success and Failure.
C24_InvertTwice ==
    \A n \in Nodes :
        /\ tree[n].kind = "Invert" /\ Len(log.ret[n]) = 1 /\ HasChild(n)
        /\ tree[Child(n)].kind = "Invert" /\ HasChild(Child(n))
        => LET c == Child(Child(n))
           IN  /\ Len(log.ret[c]) = 1
               /\ Returned(c) \in Statuses
               /\ log.ret[n] = log.ret[c]

\* The child failed, the inner Invert returned Success and the outer Failure.
C24_Witness ==
    /\ op.kind = "Tick" /\ Nodes # {} /\ tree[1].kind = "Invert" /\ HasChild(1)
    /\ tree[Child(1)].kind = "Invert" /\ HasChild(Child(1))
    /\ log.ret[Child(Child(1))] = <<Failure>>
    /\ log.ret[Child(1)] = <<Success>>
    /\ log.ret[1] = <<Failure>>

\* C25: WhileSuccess.Tick maps the child's Success to Running and resets the
\* child, its Running to Running and its Failure or Ready to Failure, both
\* without a reset; with no child it returns Failure.
C25_WhileSuccessMapping ==
    \A n \in Nodes :
        tree[n].kind = "WhileSuccess" /\ Len(log.ret[n]) = 1 =>
            /\ log.cached[n] = log.ret[n]
            /\ ~HasChild(n) => log.ret[n] = <<Failure>>
            /\ HasChild(n) =>
                  LET c == Child(n)
                  IN  /\ Len(log.ret[c]) = 1
                      /\ log.ret[c] = <<Success>> =>
                            log.ret[n] = <<Running>> /\ log.resets[c] = 1
                      /\ log.ret[c] = <<Running>> =>
                            log.ret[n] = <<Running>> /\ log.resets[c] = 0
                      /\ log.ret[c] \in {<<Failure>>, <<Ready>>} =>
                            log.ret[n] = <<Failure>> /\ log.resets[c] = 0

\* A WhileSuccess whose child returned Ready: Failure, the child not reset.
C25_Witness ==
    /\ op.kind = "Tick" /\ Nodes # {} /\ tree[1].kind = "WhileSuccess" /\ HasChild(1)
    /\ tree[Child(1)].kind = "Action"
    /\ log.ret[Child(1)] = <<Ready>> /\ log.resets[Child(1)] = 0
    /\ log.ret[1] = <<Failure>> /\ status[1] = Failure

\* C26: WhileFailure.Tick maps the child's Failure to Running and resets the
\* child, its Running to Running and its Success to Success, both without a
\* reset; with no child it returns Success.
C26_WhileFailureMapping ==
    \A n \in Nodes :
        tree[n].kind = "WhileFailure" /\ Len(log.ret[n]) = 1 =>
            /\ log.cached[n] = log.ret[n]
            /\ ~HasChild(n) => log.ret[n] = <<Success>>
            /\ HasChild(n) =>
                  LET c == Child(n)
                  IN  /\ Len(log.ret[c]) = 1
                      /\ log.ret[c] = <<Failure>> =>
                            log.ret[n] = <<Running>> /\ log.resets[c] = 1
                      /\ log.ret[c] = <<Running>> =>
                            log.ret[n] = <<Running>> /\ log.resets[c] = 0
                      /\ log.ret[c] = <<Success>> =>
                            log.ret[n] = <<Success>> /\ log.resets[c] = 0

\* A WhileFailure whose child failed: Running, the child reset once.
C26_Witness ==
    /\ op.kind = "Tick" /\ Nodes # {} /\ tree[1].kind = "WhileFailure" /\ HasChild(1)
    /\ log.ret[Child(1)] = <<Failure>> /\ log.resets[Child(1)] = 1
    /\ status[Child(1)] = Ready
    /\ log.ret[1] = <<Running>> /\ status[1] = Running

\* C27: Forever.Tick returns and caches Running whatever its child returns and
\* when it has no child; a child is ticked once and not reset.
C27_ForeverRunning ==
    \A n \in Nodes :
        tree[n].kind = "Forever" /\ Len(log.ret[n]) = 1 =>
            /\ log.ret[n] = <<Running>> /\ log.cached[n] = <<Running>>
            /\ HasChild(n) =>
                  Len(log.ret[Child(n)]) = 1 /\ log.resets[Child(n)] = 0

\* A Forever whose child succeeded: Running, the child left with its Success.
C27_Witness ==
    /\ op.kind = "Tick" /\ Nodes # {} /\ tree[1].kind = "Forever" /\ HasChild(1)
    /\ log.ret[Child(1)] = <<Success>> /\ status[Child(1)] = Success
    /\ log.ret[1] = <<Running>> /\ status[1] = Running

\* C28: every Sequence.Tick starts at the first child, whatever the tick before
\* it did: it ticks the children in list order up to the first that does not
\* return Success and returns that child's status, without ticking a later
\* child; so after a tick that stopped at child i > 1, the next tick ticks the
\* children before i first.
C28_SequenceRestarts ==
    tree[1].kind = "Sequence" =>
        \A k \in 1..Len(hist) :
            hist[k].kind = "Tick" =>
                LET kids == tree[1].kids
                    j == Len(hist[k].log.order) - 1
                IN  /\ j \in 1..Len(kids)
                    /\ hist[k].log.order = <<1>> \o SubSeq(kids, 1, j)
                    /\ \A i \in 1..(j - 1) : hist[k].log.ret[kids[i]] = <<Success>>
                    /\ hist[k].log.ret[kids[j]] # <<Success>> =>
                          hist[k].r = hist[k].log.ret[kids[j]][1]
                    /\ j < Len(kids) => hist[k].log.ret[kids[j]] # <<Success>>

\* The first tick stopped at the second child, which was Running; in the next
\* tick the first child fails and the second is not ticked.
C28_Witness ==
    /\ tree[1].kind = "Sequence" /\ Len(hist) >= 2
    /\ hist[1].kind = "Tick" /\ hist[2].kind = "Tick"
    /\ hist[1].log.ret[2] = <<Success>> /\ hist[1].log.ret[3] = <<Running>>
    /\ hist[1].r = Running
    /\ hist[2].log.ret[2] = <<Failure>> /\ hist[2].log.ret[3] = <<>>
    /\ hist[2].r = Failure

\* ------------------------------------------------- claims about the status
\* C29: no Tick leaves a node it ticked (and did not reset), or the tree, with
\* cached status Ready.
C29_NeverReadyAfterTick ==
    /\ op.kind = "Tick" => btStatus # Ready
    /\ \A n \in Nodes :
          Ticked(n) /\ log.resets[n] = 0 /\ tree[n].kind # "Condition" => status[n] # Ready

\* C29 as the code has it: a Tick leaves a leaf Ready only when its callback
\* returned Ready, a composite or decorator only when a node it ticked returned
\* Ready to it (or when it is a RepeatN that is past MaxCount and returns what it
\* stored), and the tree only when its root returned Ready.
C29_ReadyOnlyPassedUp ==
    /\ op.kind = "Tick" /\ btStatus = Ready => Nodes # {} /\ log.ret[1] = <<Ready>>
    /\ \A n \in Nodes :
          /\ Ticked(n) /\ log.resets[n] = 0 /\ tree[n].kind # "Condition"
          /\ status[n] = Ready
          => IF tree[n].kind \in LeafKinds
             THEN log.raw[n] = <<Ready>>
             ELSE \/ \E c \in Nodes :
                        /\ \/ \E i \in 1..Len(tree[n].kids) : tree[n].kids[i] = c
                           \/ \E i \in 1..Len(tree[n].conds) : tree[n].conds[i] = c
                        /\ log.ret[c] = <<Ready>>
                  \/ /\ tree[n].kind = "RepeatN" /\ ~Ticked(Child(n))
                     /\ tree[n].MaxCount > 0 /\ Count[n] >= tree[n].MaxCount

\* A Sequence whose first action returned Ready: the action, the Sequence and
\* the tree are Ready after the tick.
C29_Witness ==
    /\ op.kind = "Tick" /\ Nodes # {} /\ tree[1].kind = "Sequence" /\ Len(tree[1].kids) >= 1
    /\ log.raw[tree[1].kids[1]] = <<Ready>> /\ status[tree[1].kids[1]] = Ready
    /\ log.ret[1] = <<Ready>> /\ status[1] = Ready /\ btStatus = Ready

\* C30: BehaviorTree.Tick without a root returns and caches Failure; with a
\* root it ticks the root exactly once and returns and caches the root's
\* result; a new tree is Ready before any tick.
C30_TreeTick ==
    /\ op.kind = "New" => btStatus = Ready
    /\ op.kind = "Tick" /\ Nodes = {} => op.r = Failure /\ btStatus = Failure
    /\ op.kind = "Tick" /\ Nodes # {} =>
          /\ Len(log.ret[1]) = 1
          /\ Len(SelectSeq(log.order, LAMBDA x : x = 1)) = 1
          /\ op.r = Returned(1)
          /\ btStatus = Returned(1)

\* A tree built by New(nil) was ticked: Failure, returned and cached.
C30_Witness ==
    /\ Nodes = {} /\ op.kind = "Tick" /\ op.r = Failure /\ btStatus = Failure

\* ------------------------------------------------------ claims about Log
\* C31: Log.Tick with a child ticks the child exactly once, does not reset it,
\* and returns and caches the child's status unchanged, whatever Message and
\* LogLevel are.
C31_LogPassThrough ==
    \A n \in Nodes :
        tree[n].kind = "Log" /\ Len(log.ret[n]) = 1 /\ HasChild(n) =>
            LET c == Child(n)
            IN  /\ Len(log.ret[c]) = 1
                /\ Returned(c) \in Statuses
                /\ log.ret[n] = log.ret[c]
                /\ log.cached[n] = log.ret[c]
                /\ log.resets[c] = 0

\* A Log with a message and a level of its own whose child succeeded: one
\* record at that level, and Success returned and cached.
C31_Witness ==
    /\ op.kind = "Tick" /\ Nodes # {} /\ tree[1].kind = "Log" /\ HasChild(1)
    /\ tree[1].Message = "checkpoint" /\ tree[1].LogLevel = <<"ERROR">>
    /\ log.ret[Child(1)] = <<Success>>
    /\ log.slog = <<[node |-> 1, level |-> "ERROR", msg |-> "checkpoint", status |-> Success]>>
    /\ log.ret[1] = <<Success>> /\ status[1] = Success

\* ---------------------------------------------------- claims about Reset
\* The fields of the nodes in machine state m.
Fields(m) ==
    [status |-> m.status, Count |-> m.Count, startTime |-> m.startTime,
     MinSuccessCount |-> m.MinSuccessCount]

\* C32: in every reachable state and for every node, Reset returns Ready, and
\* a second Reset right after it returns Ready and leaves every status, Count,
\* start time and MinSuccessCount as the first Reset left them.
C32_ResetIdempotent ==
    \A n \in Nodes :
        LET m1 == Reset(Machine, n)
            m2 == Reset([m1 EXCEPT !.log = EmptyLog], n)
        IN  /\ m1.r = Ready /\ m2.r = Ready
            /\ Fields(m2) = Fields(m1)

\* A RepeatN with two executions counted: Reset takes Count to 0, and so does
\* a second Reset.
C32_Witness ==
    /\ Nodes # {} /\ tree[1].kind = "RepeatN" /\ HasChild(1) /\ Count[1] = 2
    /\ Reset(Machine, 1).Count[1] = 0 /\ Reset(Machine, 1).status[1] = Ready
    /\ Reset(Reset(Machine, 1), 1).Count[1] = 0

GuardedKinds == {"Retry", "Repeat", "RepeatN", "Invert", "WithTimeout", "Log"}

\* C34: Tick of a Retry, Repeat, RepeatN, Invert, WithTimeout or Log without a
\* child returns Failure and caches Failure, on every tick and whatever the
\* node's state was.
C34_NilChildFails ==
    \A n \in Nodes :
        (tree[n].kind \in GuardedKinds /\ ~HasChild(n)) =>
            /\ \A o \in Oracles :
                  LET m == Tick([Machine EXCEPT !.log = EmptyLog], o, n)
                  IN  /\ m.r = Failure /\ m.status[n] = Failure
                      /\ \A k \in Nodes : m.log.raw[k] = <<>>
            /\ (op.kind = "Tick" /\ Ticked(n)) =>
                  /\ Returned(n) = Failure /\ status[n] = Failure

\* A Retry without a child that has already failed once is ticked again and
\* fails again.
C34_Witness ==
    /\ Nodes # {} /\ tree[1].kind = "Retry" /\ ~HasChild(1)
    /\ op.kind = "Tick" /\ Ticked(1)
    /\ Returned(1) = Failure /\ status[1] = Failure /\ btStatus = Failure
    /\ \A o \in Oracles : Tick([Machine EXCEPT !.log = EmptyLog], o, 1).r = Failure

\* The last Reset among the first k calls of hist (0: none), and the calls
\* after it up to k in which the child of the root was ticked and returned
\* something other than Running.
LastReset(k) ==
    LET rs == {j \in 1..k : hist[j].kind = "Reset"}
    IN  IF rs = {} THEN 0 ELSE CHOOSE j \in rs : \A i \in rs : i <= j
Finishings(k) ==
    {j \in (LastReset(k) + 1)..k :
        /\ hist[j].kind = "Tick" /\ Len(hist[j].log.ret[2]) = 1
        /\ hist[j].log.ret[2][1] # Running}

\* C35: Reset of a RepeatN, mid-count or after MaxCount was reached, leaves
\* Count 0 and every status Ready and resets the child once, which is the state
\* of a freshly constructed node; the tick after it ticks the child, and a
\* tick returns something other than Running only when the child has finished
\* MaxCount times since the last Reset (since construction when there was none).
C35_ResetStartsOver ==
    (Len(tree) = 2) =>
        \A k \in 1..Len(hist) :
            /\ hist[k].kind = "Reset" =>
                  /\ hist[k].r = Ready
                  /\ hist[k].Count = [n \in Nodes |-> 0]
                  /\ hist[k].status = [n \in Nodes |-> Ready]
                  /\ hist[k].log.resets = [n \in Nodes |-> 1]
                  /\ k < Len(hist) /\ hist[k + 1].kind = "Tick" =>
                        Len(hist[k + 1].log.ret[2]) = 1
            /\ hist[k].kind = "Tick" =>
                  /\ hist[k].r # Running <=> Cardinality(Finishings(k)) = tree[1].MaxCount
                  /\ Cardinality(Finishings(k)) = hist[k].Count[1]

\* A RepeatN with MaxCount 2 whose child finished once is reset mid-count, and
\* then needs two more ticks with a finishing child to return Success.
C35_Witness ==
    /\ Len(tree) = 2 /\ tree[1].MaxCount = 2 /\ Len(hist) = 4
    /\ hist[1].kind = "Tick" /\ hist[1].Count[1] = 1
    /\ hist[2].kind = "Reset" /\ hist[2].before[1] = 1 /\ hist[2].Count[1] = 0
    /\ hist[3].kind = "Tick" /\ hist[3].r = Running /\ hist[3].Count[1] = 1
    /\ hist[4].kind = "Tick" /\ hist[4].r = Success /\ hist[4].Count[1] = 2

\* How often the Tick of node k was called, according to log l.
TickCalls(l, k) == Len(SelectSeq(l.order, LAMBDA x : x = k))

\* C36: within one Tick call no node's Tick is called twice and no callback
\* is invoked twice: in the call the host made, and in a Tick of any node from
\* any reachable state.
C36_OncePerTick ==
    /\ op.kind = "Tick" =>
          \A k \in Nodes :
              /\ TickCalls(log, k) <= 1 /\ Len(log.ret[k]) = TickCalls(log, k)
              /\ Len(log.raw[k]) <= TickCalls(log, k)
    /\ \A n \in Nodes : \A o \in Oracles :
          LET l == Tick([Machine EXCEPT !.log = EmptyLog], o, n).log
          IN  \A k \in Nodes : TickCalls(l, k) <= 1 /\ Len(l.raw[k]) <= TickCalls(l, k)

\* A Parallel of three actions was ticked: each action's Tick and each Run was
\* called exactly once.
C36_Witness ==
    /\ Nodes # {} /\ tree[1].kind = "Parallel" /\ Len(tree[1].kids) = 3
    /\ op.kind = "Tick"
    /\ \A i \in 1..3 :
          /\ TickCalls(log, tree[1].kids[i]) = 1
          /\ Len(log.raw[tree[1].kids[i]]) = 1

\* C37: in a tick of a Parallel with children, when fewer than MinSuccessCount
\* children succeeded and the cannot-reach test did not fire, some child
\* returned Running or Ready and the Parallel returns Running; so the final
\* "return Failure" of Parallel.Tick is never taken, and every Failure the
\* Parallel returns has successCount + runningCount < MinSuccessCount.
C37_LastStepUnreachable ==
    op.kind = "Tick" =>
        \A n \in Nodes :
            (tree[n].kind = "Parallel" /\ Len(tree[n].kids) > 0 /\ Ticked(n)) =>
                LET succ == Cardinality(KidsReturning(n, {Success}))
                    run == Cardinality(KidsReturning(n, {Running, Ready}))
                    min == MinSuccessCount[n]
                IN  /\ (succ < min /\ succ + run >= min) => (run > 0 /\ Returned(n) = Running)
                    /\ Returned(n) = Failure => succ + run < min
                    /\ ~(succ < min /\ succ + run >= min /\ run = 0)

\* A Parallel of three whose children returned Failure, Ready and Failure: the
\* threshold 1 is not met, can still be met, and the Parallel returns Running.
C37_Witness ==
    /\ Nodes # {} /\ tree[1].kind = "Parallel" /\ Len(tree[1].kids) = 3
    /\ op.kind = "Tick" /\ MinSuccessCount[1] = 1
    /\ KidsReturning(1, {Failure}) = {1, 3} /\ KidsReturning(1, {Ready}) = {2}
    /\ Returned(1) = Running

\* C38: with a child, whatever the child returns (Ready included), Retry and
\* WhileFailure return Running or Success, and Repeat and WhileSuccess return
\* Running or Failure; a Ready child gives Running for the first two and Failure
\* for the other two.
C38_LoopDecoratorRange ==
    op.kind = "Tick" =>
        \A n \in Nodes :
            (HasChild(n) /\ Ticked(n)) =>
                /\ tree[n].kind \in {"Retry", "WhileFailure"} =>
                      /\ Returned(n) \in {Running, Success} /\ status[n] = Returned(n)
                      /\ Returned(Child(n)) = Ready => Returned(n) = Running
                /\ tree[n].kind \in {"Repeat", "WhileSuccess"} =>
                      /\ Returned(n) \in {Running, Failure} /\ status[n] = Returned(n)
                      /\ Returned(Child(n)) = Ready => Returned(n) = Failure

\* A Retry whose child returned Ready returns Running.
C38_Witness ==
    /\ Nodes # {} /\ tree[1].kind = "Retry" /\ HasChild(1) /\ op.kind = "Tick"
    /\ Ticked(2) /\ Returned(2) = Ready /\ Returned(1) = Running /\ btStatus = Running

\* C39: Selector(c1 .. cn) and Invert(Sequence(Invert(c1) .. Invert(cn))),
\* ticked over the same callbacks, return and cache the same status and tick
\* the same prefix of c1 .. cn, the empty list included.
C39_SelectorDual ==
    op.kind = "Tick" =>
        /\ Ticked(DualSelector) /\ Ticked(DualInvert)
        /\ Returned(DualSelector) = Returned(DualInvert)
        /\ status[DualSelector] = status[DualInvert]
        /\ \A i \in 1..Len(tree[DualSelector].kids) :
              /\ Ticked(DualLeft(i)) <=> Ticked(DualRight(i))
              /\ Ticked(DualLeft(i)) =>
                    /\ Returned(DualLeft(i)) = Returned(DualRight(i))
                    /\ \A j \in 1..(i - 1) : Ticked(DualLeft(j))

\* Three children of which the first failed and the second succeeded: both
\* sides return Success and neither ticked the third.
C39_Witness ==
    /\ op.kind = "Tick" /\ Len(tree[DualSelector].kids) = 3
    /\ Returned(DualLeft(1)) = Failure /\ Returned(DualRight(1)) = Failure
    /\ Returned(DualLeft(2)) = Success /\ Returned(DualRight(2)) = Success
    /\ ~Ticked(DualLeft(3)) /\ ~Ticked(DualRight(3))
    /\ Returned(DualSelector) = Success /\ Returned(DualInvert) = Success

\* C40: for a RepeatN constructed with Count 0 and MaxCount N >= 1, under any
\* interleaving of Tick and Reset, Count stays within 0..N, the child is
\* ticked only by a Tick that found Count < N, and between two resets the child
\* returns a status other than Running at most N times.
C40_CountBounded ==
    /\ Count[1] \in 0..tree[1].MaxCount
    /\ \A k \in 1..Len(hist) :
          /\ hist[k].before[1] \in 0..tree[1].MaxCount
          /\ hist[k].Count[1] \in 0..tree[1].MaxCount
          /\ Len(tree) = 2 =>
                /\ Len(hist[k].log.ret[2]) > 0 =>
                      (hist[k].kind = "Tick" /\ hist[k].before[1] < tree[1].MaxCount)
                /\ Cardinality(Finishings(k)) <= tree[1].MaxCount

\* A RepeatN with MaxCount 2 counted to 2 in two ticks, left the child alone in
\* a third tick, and was then reset to 0.
C40_Witness ==
    /\ Len(tree) = 2 /\ tree[1].MaxCount = 2 /\ Len(hist) = 4
    /\ hist[1].kind = "Tick" /\ hist[1].Count[1] = 1
    /\ hist[2].kind = "Tick" /\ hist[2].Count[1] = 2 /\ Cardinality(Finishings(2)) = 2
    /\ hist[3].kind = "Tick" /\ hist[3].log.ret[2] = <<>> /\ hist[3].Count[1] = 2
    /\ hist[4].kind = "Reset" /\ Count[1] = 0

====
